---- MODULE Spec2Model ----
(***************************************************************************)
(* Holdings decomposition (classes/portfolio_decomposer.py),               *)
(* Brinson-Hood-Beebower attribution (classes/portfolio_calculations.py),  *)
(* the batched queries of classes/market_data.py, and the Alpha Vantage    *)
(* fetcher with its database engine (classes/data_fetcher.py, db/core.py). *)
(*                                                                         *)
(* DataFrames are sequences of records (one record per row, one field per  *)
(* column).  Dollar amounts are integers.  ETF constituent weights are     *)
(* integers in tenths (6 stands for 0.6).  A float quotient a / b is kept  *)
(* as the exact fraction [num |-> a, den |-> b]; den = 0 stands for the    *)
(* NaN / inf a float division by zero yields.                              *)
(***************************************************************************)
EXTENDS Integers, Sequences, FiniteSets, TLC

VARIABLES
    pc,                 \* "new" before PortfolioDecomposer.__init__, "ready" after,
                        \* "called" / "called twice" once its methods have run;
                        \* "script" in the attribution script; "market_data" for
                        \* the batched queries; the statement reached in
                        \* _fetch_alphavantage_data; "imported" for db/core.py
    port,               \* self.port
    etf_holdings_dict,  \* self.etf_holdings_dict
    stock_universe,     \* the stock_universe table read by the last decompose_sectors
    result,             \* what the last call returned or raised
    series,             \* the four frames passed to brinson_hood_beebower
    attribution_df,     \* what brinson_hood_beebower returned
    price_data,         \* the wide price table passed to calculate_returns
    returns_data,       \* what calculate_returns returned
    agg_returns,        \* what aggregate_returns returned (the script's returns_monthly)
    stock_and_sectors,  \* the stock tables passed to aggregate_portfolio_by_sector
    caller_port,        \* the caller's portfolio table, passed to PortfolioDecomposer
    stock_list_tickers, \* the stock_list passed to MarketData.get_stock_*_data
    attempt,            \* the loop variable of _fetch_alphavantage_data
    slept,              \* the durations of its time.sleep calls, in call_intervals
    responses,          \* the outcomes of its requests.get calls
    environ,            \* os.environ["DATABASE_URL"]: <<>> when unset, <<url>> when set
    DATABASE_URL,       \* the module constant of db/core.py
    engine_cache,       \* the lru_cache of get_engine: <<>> or <<engine>>
    engines,            \* how many engines create_engine has made
    update_log,         \* the update_log table of each database
    fundamental_overview, \* the fundamental_overview table of each database
    now                 \* datetime.now(), in seconds

vars == <<pc, port, etf_holdings_dict, stock_universe, result, series, attribution_df, price_data, returns_data, agg_returns, stock_and_sectors, caller_port, stock_list_tickers, attempt, slept, responses, environ, DATABASE_URL, engine_cache, engines, update_log, fundamental_overview, now>>

(***************************************************************************)
(* Bounds and input domains                                                *)
(***************************************************************************)
MaxPositions == 2

PositionValues == {0, 1000}

ETFOrder == <<"ETF1", "ETF2">>

TickerOrder == <<"AAA", "BBB", "ETF1", "ETF2">>

NameOrder == <<"AAA Corp", "AAA Inc", "BBB Corp", "ETF1 Fund", "ETF2 Fund">>

Range(s) == {s[i] : i \in DOMAIN s}

Absent == "<absent>"

None == "<None>"

NaN == "<NaN>"

\* The Description column of the brokerage export for each Symbol.
Description(t) ==
    CASE t = "AAA" -> "AAA Corp"
      [] t = "BBB" -> "BBB Corp"
      [] t = "ETF1" -> "ETF1 Fund"
      [] OTHER -> "ETF2 Fund"

Positions ==
    {[Symbol |-> t, Description |-> Description(t), PositionValue |-> v] :
        t \in Range(TickerOrder), v \in PositionValues}

RECURSIVE SeqsUpTo(_, _)
SeqsUpTo(S, n) ==
    IF n = 0 THEN {<<>>}
    ELSE LET shorter == SeqsUpTo(S, n - 1)
         IN shorter \cup {Append(s, x) : s \in {t \in shorter : Len(t) = n - 1}, x \in S}

Portfolios == SeqsUpTo(Positions, MaxPositions)

Constituent(t, n, w) == [ticker |-> t, name |-> n, weight |-> w]

\* An ETF without a key in the dictionary is mapped to the empty table here
\* (get_etf_holdings keeps no empty table).
NoHoldings == <<>>

\* The holdings tables get_etf_holdings may yield for ETF1: weights that sum to
\* 1, that sum to less, and a weight of zero.
ETF1Holdings ==
    { NoHoldings,
      <<Constituent("AAA", "AAA Corp", 6), Constituent("BBB", "BBB Corp", 4)>>,
      <<Constituent("AAA", "AAA Corp", 5)>>,
      <<Constituent("BBB", "BBB Corp", 0)>> }

\* ... and for ETF2: the second table lists AAA under another name.
ETF2Holdings ==
    { NoHoldings,
      <<Constituent("AAA", "AAA Corp", 3)>>,
      <<Constituent("AAA", "AAA Inc", 3), Constituent("BBB", "BBB Corp", 5)>> }

HoldingsDicts == {[ETF1 |-> a, ETF2 |-> b] : a \in ETF1Holdings, b \in ETF2Holdings}

\* The stock_universe table: ticker -> sector, Absent for a ticker without a row.
StockUniverses ==
    {[AAA |-> a, BBB |-> b] : a \in {"Technology", "N/A", Absent},
                              b \in {"Energy", "Widgets", Absent}}

(***************************************************************************)
(* Helpers on sequences and fractions                                      *)
(***************************************************************************)
RECURSIVE SumSeq(_)
SumSeq(s) == IF s = <<>> THEN 0 ELSE Head(s) + SumSeq(Tail(s))

RECURSIVE Concat(_)
Concat(list) == IF list = <<>> THEN <<>> ELSE Head(list) \o Concat(Tail(list))

Column(rows, c) == [i \in DOMAIN rows |-> rows[i][c]]

Div(a, b) == [num |-> a, den |-> b]

IsNumber(q) == q.den # 0

\* a / b + c / d; a non-number operand makes the sum a non-number.
Plus(p, q) == [num |-> p.num * q.den + q.num * p.den, den |-> p.den * q.den]

RECURSIVE SumFractions(_)
SumFractions(s) == IF s = <<>> THEN Div(0, 1) ELSE Plus(Head(s), SumFractions(Tail(s)))

EqualsOne(q) == IsNumber(q) /\ q.num = q.den

(***************************************************************************)
(* PortfolioDecomposer                                                     *)
(***************************************************************************)
\* self.etf_holdings_dict.keys(), in the dictionary's order.
keys(holdings_dict) == SelectSeq(ETFOrder, LAMBDA k : holdings_dict[k] # NoHoldings)

\* DataFrame.rename(columns={"Symbol": "ticker", "Description": "name"}).
rename(rows) ==
    [i \in DOMAIN rows |->
        IF "Symbol" \in DOMAIN rows[i]
        THEN [ticker |-> rows[i].Symbol, name |-> rows[i].Description,
              PositionValue |-> rows[i].PositionValue]
        ELSE rows[i]]

\* An inner merge that keeps, for each left key, only the first matching row of
\* the right table.
merge_inner_first(key_seq, rows) ==
    Concat([i \in DOMAIN key_seq |->
        LET matching == SelectSeq(rows, LAMBDA r : r.ticker = key_seq[i])
        IN IF matching = <<>> THEN <<>> ELSE <<matching[1]>>])

\* pd.merge(port_etf_df, self.port, on="ticker", how="inner"): the left keys in
\* order, each with its matching rows of the right table.
merge_inner(key_seq, rows) ==
    Concat([i \in DOMAIN key_seq |-> SelectSeq(rows, LAMBDA r : r.ticker = key_seq[i])])

\* _get_portfolio_etf_stocks that leaves only the direct stocks in self.port.
_get_portfolio_etf_stocks_keeping_stocks(self_port, holdings_dict) ==
    LET renamed == rename(self_port)
        port_etf_df == keys(holdings_dict)
    IN [port |-> SelectSeq(renamed, LAMBDA r : r.ticker \notin Range(port_etf_df)),
        port_stock |-> SelectSeq(renamed, LAMBDA r : r.ticker \notin Range(port_etf_df)),
        port_etf |-> merge_inner(port_etf_df, renamed)]

\* PortfolioDecomposer._get_portfolio_etf_stocks: port is what self.port is left as.
_get_portfolio_etf_stocks(self_port, holdings_dict) ==
    LET renamed == rename(self_port)
        port_etf_df == keys(holdings_dict)
    IN [port |-> renamed,
        port_stock |-> SelectSeq(renamed, LAMBDA r : r.ticker \notin Range(port_etf_df)),
        port_etf |-> merge_inner(port_etf_df, renamed)]

\* temp_df["allocation"] = temp_df["weight"] * position_value, the weight in tenths.
allocation_of(weight, position_value) == (weight * position_value) \div 10

\* Mutant: the constituent weights of each ETF are renormalised to sum to 1.
_decompose_etf_to_stocks_renormalised(etf_portion, holdings_dict) ==
    LET found == SelectSeq(etf_portion, LAMBDA p : holdings_dict[p.ticker] # NoHoldings)
    IN [i \in DOMAIN found |->
          LET temp_df == holdings_dict[found[i].ticker]
              weights == SumSeq(Column(temp_df, "weight"))
          IN [j \in DOMAIN temp_df |->
                [ticker |-> temp_df[j].ticker, name |-> temp_df[j].name,
                 weight |-> temp_df[j].weight,
                 allocation |->
                     IF weights = 0 THEN 0
                     ELSE (temp_df[j].weight * found[i].PositionValue) \div weights]]]

_decompose_etf_to_stocks(etf_portion, holdings_dict) ==
    LET found == SelectSeq(etf_portion, LAMBDA p : holdings_dict[p.ticker] # NoHoldings)
    IN [i \in DOMAIN found |->
          LET temp_df == holdings_dict[found[i].ticker]
          IN [j \in DOMAIN temp_df |->
                [ticker |-> temp_df[j].ticker, name |-> temp_df[j].name,
                 weight |-> temp_df[j].weight,
                 allocation |-> allocation_of(temp_df[j].weight, found[i].PositionValue)]]]

\* The (ticker, name) pairs in the sort order of groupby.
KeyOrder ==
    [i \in 1..(Len(TickerOrder) * Len(NameOrder)) |->
        <<TickerOrder[((i - 1) \div Len(NameOrder)) + 1],
          NameOrder[((i - 1) % Len(NameOrder)) + 1]>>]

\* Mutant: the rows are grouped by ticker alone, under the first name seen.
groupby_ticker(all_stocks) ==
    LET present == SelectSeq(TickerOrder,
                     LAMBDA t : \E i \in DOMAIN all_stocks : all_stocks[i].ticker = t)
    IN [g \in DOMAIN present |->
          LET group == SelectSeq(all_stocks, LAMBDA r : r.ticker = present[g])
          IN [ticker |-> present[g], name |-> group[1].name,
              allocation |-> SumSeq(Column(group, "allocation"))]]

\* A grouping by (ticker, name) whose rows carry the sum over the whole ticker.
groupby_ticker_name_pooled(all_stocks) ==
    LET present == SelectSeq(KeyOrder,
                     LAMBDA k : \E i \in DOMAIN all_stocks :
                                  <<all_stocks[i].ticker, all_stocks[i].name>> = k)
    IN [g \in DOMAIN present |->
          [ticker |-> present[g][1], name |-> present[g][2],
           allocation |-> SumSeq(Column(
               SelectSeq(all_stocks, LAMBDA r : r.ticker = present[g][1]),
               "allocation"))]]

\* all_stocks.groupby(["ticker", "name"], as_index=False, dropna=False)
\*           .agg({"allocation": "sum"})
groupby_ticker_name(all_stocks) ==
    LET present == SelectSeq(KeyOrder,
                     LAMBDA k : \E i \in DOMAIN all_stocks :
                                  <<all_stocks[i].ticker, all_stocks[i].name>> = k)
    IN [g \in DOMAIN present |->
          [ticker |-> present[g][1], name |-> present[g][2],
           allocation |-> SumSeq(Column(
               SelectSeq(all_stocks, LAMBDA r : <<r.ticker, r.name>> = present[g]),
               "allocation"))]]

\* The total the weights are taken against.
total_alloc(grouped) == SumSeq(Column(grouped, "allocation"))

\* pd.concat(decomposed_etf_list + [port_stock], ignore_index=True), of which the
\* groupby reads the columns ticker, name and allocation.
concat_stocks(decomposed_etf_list, port_stock) ==
    LET etf_rows == Concat(decomposed_etf_list)
    IN [i \in DOMAIN etf_rows |->
          [ticker |-> etf_rows[i].ticker, name |-> etf_rows[i].name,
           allocation |-> etf_rows[i].allocation]]
       \o [i \in DOMAIN port_stock |->
            [ticker |-> port_stock[i].ticker, name |-> port_stock[i].name,
             allocation |-> port_stock[i].PositionValue]]

decompose_stocks(self_port, holdings_dict) ==
    LET split == _get_portfolio_etf_stocks(self_port, holdings_dict)
        decomposed_etf_list == _decompose_etf_to_stocks(split.port_etf, holdings_dict)
        all_stocks == concat_stocks(decomposed_etf_list, split.port_stock)
        grouped_stocks == groupby_ticker_name(all_stocks)
        total == total_alloc(grouped_stocks)
    IN [i \in DOMAIN grouped_stocks |->
          [ticker |-> grouped_stocks[i].ticker, name |-> grouped_stocks[i].name,
           allocation |-> grouped_stocks[i].allocation,
           port_weight |-> Div(grouped_stocks[i].allocation, total)]]

\* The dictionary literal of map_to_gics_sector.
mapping ==
    [label \in {"Basic Materials", "Communication Services", "Consumer Cyclical",
                "Consumer Defensive", "Energy", "Financial Services", "Healthcare",
                "Industrials", "Real Estate", "Technology", "Utilities", "N/A"} |->
        CASE label = "Basic Materials" -> "Materials"
          [] label = "Communication Services" -> "Communication Services"
          [] label = "Consumer Cyclical" -> "Consumer Discretionary"
          [] label = "Consumer Defensive" -> "Consumer Staples"
          [] label = "Energy" -> "Energy"
          [] label = "Financial Services" -> "Financials"
          [] label = "Healthcare" -> "Health Care"
          [] label = "Industrials" -> "Industrials"
          [] label = "Real Estate" -> "Real Estate"
          [] label = "Technology" -> "Information Technology"
          [] label = "Utilities" -> "Utilities"
          [] OTHER -> "Unknown Unmapped"]

\* Mutant: a label the table does not hold is passed through.
map_to_gics_sector_passthrough(label) ==
    IF label \in DOMAIN mapping THEN mapping[label] ELSE label

\* mapping.get(label, "Unknown Unmapped"), PortfolioDecomposer's method.
map_to_gics_sector(label) ==
    IF label \in DOMAIN mapping THEN mapping[label] ELSE "Unknown Unmapped"

\* PortfolioCalculations' static method of the same name, with the same literal.
calculations_map_to_gics_sector(label) ==
    IF label \in DOMAIN mapping THEN mapping[label] ELSE "Unknown Unmapped"

\* The gics_sector values in the sort order of groupby.
SectorOrder ==
    <<"Communication Services", "Consumer Discretionary", "Consumer Staples", "Energy",
      "Financials", "Health Care", "Industrials", "Information Technology", "Materials",
      "Real Estate", "Unknown Unmapped", "Utilities">>

limit_sql_variables == 900

\* stock_list[i:i+limit_sql_variables-1] for i in range(0, len(stock_list), limit).
RECURSIVE lots(_, _)
lots(stock_list, i) ==
    IF i >= Len(stock_list) THEN <<>>
    ELSE LET last == IF i + limit_sql_variables - 1 < Len(stock_list)
                     THEN i + limit_sql_variables - 1 ELSE Len(stock_list)
         IN <<SubSeq(stock_list, i + 1, last)>> \o lots(stock_list, i + limit_sql_variables)

\* SELECT * FROM stock_universe WHERE ticker IN (one_lot): the table's rows (ticker
\* is its primary key) in the table's order.
select_stock_universe(table, one_lot) ==
    LET hit == SelectSeq(TickerOrder,
                 LAMBDA t : t \in DOMAIN table /\ table[t] # Absent /\ t \in Range(one_lot))
    IN [i \in DOMAIN hit |-> [ticker |-> hit[i], sector |-> table[hit[i]]]]

\* MarketData.get_stock_info_data: the concatenated lots, or None (the function
\* prints and falls off its end) when no row came back: is_none says which.
\* pd.concat of no lot at all (an empty stock_list) raises ValueError.
get_stock_info_data(table, stock_list) ==
    LET batches == lots(stock_list, 0)
        stock_info_data ==
            Concat([b \in DOMAIN batches |-> select_stock_universe(table, batches[b])])
    IN [raised |-> IF batches = <<>> THEN "ValueError" ELSE "",
        is_none |-> stock_info_data = <<>>, frame |-> stock_info_data]

\* list(port_to_stocks["ticker"].unique()): first occurrences, in order.
unique(s) ==
    LET first == {i \in DOMAIN s : \A j \in 1..(i - 1) : s[j] # s[i]}
        f[n \in 0..Len(s)] ==
            IF n = 0 THEN <<>> ELSE IF n \in first THEN Append(f[n - 1], s[n]) ELSE f[n - 1]
    IN f[Len(s)]

\* pd.merge(port_to_stocks, stock_info_data_simplified, on="ticker", how="left"):
\* every left row once per matching right row, or once with gics_sector NaN.
merge_left(port_to_stocks, simplified) ==
    Concat([i \in DOMAIN port_to_stocks |->
        LET right == SelectSeq(simplified, LAMBDA r : r.ticker = port_to_stocks[i].ticker)
        IN IF right = <<>>
           THEN <<[ticker |-> port_to_stocks[i].ticker,
                   allocation |-> port_to_stocks[i].allocation, gics_sector |-> NaN]>>
           ELSE [j \in DOMAIN right |->
                   [ticker |-> port_to_stocks[i].ticker,
                    allocation |-> port_to_stocks[i].allocation,
                    gics_sector |-> right[j].gics_sector]]])

\* port_stocks_sectors.groupby("gics_sector", as_index=False)["allocation"].sum():
\* dropna is left at its default, so rows whose gics_sector is NaN form no group.
groupby_gics_sector(port_stocks_sectors) ==
    LET present == SelectSeq(SectorOrder,
                     LAMBDA g : \E i \in DOMAIN port_stocks_sectors :
                                  port_stocks_sectors[i].gics_sector = g)
    IN [k \in DOMAIN present |->
          [gics_sector |-> present[k],
           allocation |-> SumSeq(Column(
               SelectSeq(port_stocks_sectors, LAMBDA r : r.gics_sector = present[k]),
               "allocation"))]]

\* DataFrame.drop_duplicates(): the first occurrence of every row.
drop_duplicates(rows) == unique(rows)

\* decompose_sectors after the stock-level table is known: [raised |-> the
\* exception's type or "", rows |-> the returned table].  An exception of
\* get_stock_info_data propagates; stock_info_data.empty
\* on the None that get_stock_info_data returns raises AttributeError; a frame
\* that came back is never empty and always has the sector column.
decompose_sectors(port_to_stocks, table) ==
    LET ticker_list == unique(Column(port_to_stocks, "ticker"))
        stock_info_data == get_stock_info_data(table, ticker_list)
    IN IF stock_info_data.raised # ""
       THEN [raised |-> stock_info_data.raised, rows |-> <<>>]
       ELSE IF stock_info_data.is_none
       THEN [raised |-> "AttributeError", rows |-> <<>>]
       ELSE LET simplified ==
                    drop_duplicates(
                        [i \in DOMAIN stock_info_data.frame |->
                            [ticker |-> stock_info_data.frame[i].ticker,
                             gics_sector |->
                                 map_to_gics_sector(stock_info_data.frame[i].sector)]])
                sector_df == groupby_gics_sector(merge_left(port_to_stocks, simplified))
                total == total_alloc(sector_df)
            IN [raised |-> "",
                rows |-> [i \in DOMAIN sector_df |->
                            [gics_sector |-> sector_df[i].gics_sector,
                             allocation |-> sector_df[i].allocation,
                             port_weight |-> Div(sector_df[i].allocation, total)]]]

\* DataFrame.copy(): a new frame with the same columns and values; what is
\* written to the copy later is not written to the original.
copy(df) == [i \in DOMAIN df |-> [c \in DOMAIN df[i] |-> df[i][c]]]

\* What the loop of _decompose_etf_to_stocks would leave in the dictionary if
\* the allocation column were written to the dictionary's own tables.
holdings_left_in_place(etf_portion, holdings_dict) ==
    [k \in DOMAIN holdings_dict |->
        LET positions == SelectSeq(etf_portion, LAMBDA q : q.ticker = k)
        IN IF positions = <<>> \/ holdings_dict[k] = NoHoldings THEN holdings_dict[k]
           ELSE [j \in DOMAIN holdings_dict[k] |->
                   [ticker |-> holdings_dict[k][j].ticker, name |-> holdings_dict[k][j].name,
                    weight |-> holdings_dict[k][j].weight,
                    allocation |-> allocation_of(holdings_dict[k][j].weight,
                                       positions[Len(positions)].PositionValue)]]]

\* What the loop of _decompose_etf_to_stocks leaves in self.etf_holdings_dict:
\* temp_df is a copy of the dictionary's table, so the allocation column is
\* written to the copy and the table of every key is the one it was.
holdings_left(etf_portion, holdings_dict) ==
    [k \in DOMAIN holdings_dict |-> holdings_dict[k]]

(***************************************************************************)
(* The decomposer as a state machine                                       *)
(***************************************************************************)
NoResult == [op |-> "none"]

\* The database URLs: the default of db/core.py and the one the tests set.
sqlite_url == [drivername |-> "sqlite", database |-> "av_data.db"]

postgresql_url == [drivername |-> "postgresql+psycopg", database |-> "trading_data"]

Urls == {sqlite_url, postgresql_url}

\* A table of a database: whether it exists, and its rows.
NoTable == [exists |-> FALSE, rows |-> {}]

\* No request has been made.
IdleFetcher ==
    /\ attempt = 0
    /\ slept = <<>>
    /\ responses = <<>>

\* db/core.py imported with DATABASE_URL unset, nothing created yet.
IdleDatabase ==
    /\ environ = <<>>
    /\ DATABASE_URL = sqlite_url
    /\ engine_cache = <<>>
    /\ engines = 0
    /\ update_log = [u \in Urls |-> NoTable]
    /\ fundamental_overview = [u \in Urls |-> NoTable]
    /\ now = 0

NoStocks == [portfolio |-> <<>>, benchmark |-> <<>>]

NoSeries == [portfolio_weights |-> <<>>, portfolio_returns |-> <<>>,
             benchmark_weights |-> <<>>, benchmark_returns |-> <<>>]

InitDecomposer ==
    /\ caller_port = <<>>
    /\ stock_list_tickers = <<>>
    /\ IdleFetcher
    /\ IdleDatabase
    /\ pc = "new"
    /\ port = <<>>
    /\ etf_holdings_dict = [k \in Range(ETFOrder) |-> NoHoldings]
    /\ stock_universe = [t \in {"AAA", "BBB"} |-> Absent]
    /\ result = NoResult
    /\ series = NoSeries
    /\ attribution_df = <<>>
    /\ price_data = <<>>
    /\ returns_data = <<>>
    /\ agg_returns = <<>>
    /\ stock_and_sectors = NoStocks

\* PortfolioDecomposer(port, market_data): self.port = port.copy(), the holdings
\* dictionary market_data.get_etf_holdings() returns, and the stock_universe
\* table behind market_data.
Construct ==
    /\ pc = "new"
    /\ \E p \in Portfolios, d \in HoldingsDicts, table \in StockUniverses :
          /\ caller_port' = p
          /\ port' = copy(p)
          /\ etf_holdings_dict' = d
          /\ stock_universe' = table
    /\ pc' = "ready"
    /\ UNCHANGED <<result, series, attribution_df>>
    /\ UNCHANGED <<price_data, returns_data, agg_returns, stock_and_sectors>>
    /\ UNCHANGED <<stock_list_tickers, attempt, slept, responses, now>>
    /\ UNCHANGED <<environ, DATABASE_URL, engine_cache, engines, update_log, fundamental_overview>>

\* decompose_stocks(); _get_portfolio_etf_stocks reassigns self.port.
DecomposeStocks ==
    /\ pc \in {"ready", "called"}
    /\ pc' = IF pc = "ready" THEN "called" ELSE "called twice"
    /\ port' = _get_portfolio_etf_stocks(port, etf_holdings_dict).port
    /\ result' = [op |-> "decompose_stocks", raised |-> "",
                  rows |-> decompose_stocks(port, etf_holdings_dict)]
    /\ etf_holdings_dict' = holdings_left(_get_portfolio_etf_stocks(port, etf_holdings_dict).port_etf,
                                          etf_holdings_dict)
    /\ UNCHANGED <<stock_universe, series, attribution_df>>
    /\ UNCHANGED <<price_data, returns_data, agg_returns, stock_and_sectors>>
    /\ UNCHANGED <<stock_list_tickers, attempt, slept, responses, now>>
    /\ UNCHANGED <<environ, DATABASE_URL, engine_cache, engines, update_log, fundamental_overview>>
    /\ UNCHANGED caller_port

\* decompose_sectors(), which starts with decompose_stocks().
DecomposeSectors ==
    /\ pc \in {"ready", "called"}
    /\ pc' = IF pc = "ready" THEN "called" ELSE "called twice"
    /\ LET returned == decompose_sectors(decompose_stocks(port, etf_holdings_dict),
                                         stock_universe)
       IN result' = [op |-> "decompose_sectors", raised |-> returned.raised,
                     rows |-> returned.rows]
    /\ port' = _get_portfolio_etf_stocks(port, etf_holdings_dict).port
    /\ etf_holdings_dict' = holdings_left(_get_portfolio_etf_stocks(port, etf_holdings_dict).port_etf,
                                          etf_holdings_dict)
    /\ UNCHANGED <<stock_universe, series, attribution_df>>
    /\ UNCHANGED <<price_data, returns_data, agg_returns, stock_and_sectors>>
    /\ UNCHANGED <<stock_list_tickers, attempt, slept, responses, now>>
    /\ UNCHANGED <<environ, DATABASE_URL, engine_cache, engines, update_log, fundamental_overview>>
    /\ UNCHANGED caller_port

NextDecomposer ==
    \/ Construct
    \/ DecomposeStocks
    \/ DecomposeSectors

SpecDecomposer == InitDecomposer /\ [][NextDecomposer]_vars

(***************************************************************************)
(* The sector classifier: a pure function applied to a drawn label         *)
(***************************************************************************)
\* The sector names convert_benchmark_wts_df lists.
all_sectors ==
    {"tech", "healthcare", "financials", "energy", "utilities", "industrials",
     "consumer staples", "consumer discretionary", "materials", "real estate",
     "communication", "Unknown unmapped"}

\* Raw labels: the keys of the mapping, its values, the benchmark's sector names,
\* and labels no table holds, among them the empty string, None and NaN.
RawLabels ==
    DOMAIN mapping \cup {mapping[k] : k \in DOMAIN mapping} \cup all_sectors
    \cup {"", None, NaN, "Widgets", "technology", "TECHNOLOGY", " Technology", "n/a", "NA"}

InitClassifier ==
    /\ caller_port = <<>>
    /\ stock_list_tickers = <<>>
    /\ IdleFetcher
    /\ IdleDatabase
    /\ pc = "new"
    /\ port = <<>>
    /\ etf_holdings_dict = [k \in Range(ETFOrder) |-> NoHoldings]
    /\ stock_universe = [t \in {"AAA", "BBB"} |-> Absent]
    /\ \E label \in RawLabels : result = [op |-> "label", arg |-> label]
    /\ series = NoSeries
    /\ attribution_df = <<>>
    /\ price_data = <<>>
    /\ returns_data = <<>>
    /\ agg_returns = <<>>
    /\ stock_and_sectors = NoStocks

\* PortfolioDecomposer.map_to_gics_sector(label); the method does not read self.
MapToGicsSector ==
    /\ result.op = "label"
    /\ result' = [op |-> "map_to_gics_sector", arg |-> result.arg,
                  value |-> map_to_gics_sector(result.arg)]
    /\ UNCHANGED <<pc, port, etf_holdings_dict, stock_universe, series, attribution_df>>
    /\ UNCHANGED <<price_data, returns_data, agg_returns, stock_and_sectors>>
    /\ UNCHANGED <<stock_list_tickers, attempt, slept, responses, now>>
    /\ UNCHANGED <<environ, DATABASE_URL, engine_cache, engines, update_log, fundamental_overview>>
    /\ UNCHANGED caller_port

\* PortfolioCalculations.map_to_gics_sector(label), a static method.
CalculationsMapToGicsSector ==
    /\ result.op = "label"
    /\ result' = [op |-> "calculations.map_to_gics_sector", arg |-> result.arg,
                  value |-> calculations_map_to_gics_sector(result.arg)]
    /\ UNCHANGED <<pc, port, etf_holdings_dict, stock_universe, series, attribution_df>>
    /\ UNCHANGED <<price_data, returns_data, agg_returns, stock_and_sectors>>
    /\ UNCHANGED <<stock_list_tickers, attempt, slept, responses, now>>
    /\ UNCHANGED <<environ, DATABASE_URL, engine_cache, engines, update_log, fundamental_overview>>
    /\ UNCHANGED caller_port

NextClassifier ==
    \/ MapToGicsSector
    \/ CalculationsMapToGicsSector

SpecClassifier == InitClassifier /\ [][NextClassifier]_vars

(***************************************************************************)
(* PortfolioCalculations.brinson_hood_beebower                             *)
(*                                                                         *)
(* A frame is a sequence of rows [date, gics_sector, <value column>], one  *)
(* row per (date, gics_sector) as aggregate_portfolio_by_sector's groupby  *)
(* produces them.  In a merged frame a benchmark cell is <<v>> for a value *)
(* and <<>> for the NaN a left merge leaves; fillna(0) makes it a number.  *)
(***************************************************************************)
MaxWeight == 2

MaxReturn == 2

DateOrder == <<1, 2>>

\* The (date, gics_sector) pairs a frame may hold, in frame order.
SeriesKeys ==
    <<[date |-> 1, gics_sector |-> "Information Technology"],
      [date |-> 1, gics_sector |-> "Energy"],
      [date |-> 2, gics_sector |-> "Information Technology"]>>

\* A cell is <<>> (the frame has no row for the key) or <<v>>.
WeightCells == {<<>>} \cup {<<w>> : w \in 1..MaxWeight}

ReturnCells == {<<>>} \cup {<<r>> : r \in 1..MaxReturn}

\* What the four frames hold for one key.
AnyCells == [pw : WeightCells, pr : ReturnCells, bw : WeightCells, br : ReturnCells]

\* For the key of the second date: no row anywhere, portfolio only, benchmark
\* only, both sides, both sides at equal weight, a row in the weight frames
\* only, and a benchmark row in the weight frame only.
SomeCells ==
    { [pw |-> <<>>,  pr |-> <<>>,  bw |-> <<>>,  br |-> <<>>],
      [pw |-> <<1>>, pr |-> <<2>>, bw |-> <<>>,  br |-> <<>>],
      [pw |-> <<>>,  pr |-> <<>>,  bw |-> <<2>>, br |-> <<1>>],
      [pw |-> <<1>>, pr |-> <<2>>, bw |-> <<2>>, br |-> <<1>>],
      [pw |-> <<1>>, pr |-> <<1>>, bw |-> <<1>>, br |-> <<2>>],
      [pw |-> <<2>>, pr |-> <<>>,  bw |-> <<1>>, br |-> <<>>],
      [pw |-> <<1>>, pr |-> <<1>>, bw |-> <<2>>, br |-> <<>>] }

\* The frame of one column: a row for every key whose cell holds a value.
Frame(cells, c, column) ==
    LET held == SelectSeq([k \in DOMAIN SeriesKeys |-> k], LAMBDA k : cells[k][c] # <<>>)
    IN [i \in DOMAIN held |->
          IF column = "sector_weight"
          THEN [date |-> SeriesKeys[held[i]].date,
                gics_sector |-> SeriesKeys[held[i]].gics_sector,
                sector_weight |-> cells[held[i]][c][1]]
          ELSE [date |-> SeriesKeys[held[i]].date,
                gics_sector |-> SeriesKeys[held[i]].gics_sector,
                sector_return |-> cells[held[i]][c][1]]]

SameKey(a, b) == a.date = b.date /\ a.gics_sector = b.gics_sector

\* portfolio_weights.merge(portfolio_returns, on=["date", "gics_sector"],
\* how="inner"), then the rename to weight_portfolio / return_portfolio.
merge_portfolio(portfolio_weights, portfolio_returns) ==
    Concat([i \in DOMAIN portfolio_weights |->
        LET right == SelectSeq(portfolio_returns,
                               LAMBDA r : SameKey(r, portfolio_weights[i]))
        IN [j \in DOMAIN right |->
              [date |-> portfolio_weights[i].date,
               gics_sector |-> portfolio_weights[i].gics_sector,
               weight_portfolio |-> portfolio_weights[i].sector_weight,
               return_portfolio |-> right[j].sector_return]]])

\* merged_df.merge(benchmark_weights, ..., how="left") and
\* merged_df.merge(benchmark_returns, ..., how="left"), then the rename to
\* weight_benchmark / return_benchmark: every left row is kept, once per
\* matching benchmark row, with an empty cell where the benchmark has none.
merge_benchmark(merged_df, benchmark_weights, benchmark_returns) ==
    Concat([i \in DOMAIN merged_df |->
        LET w == SelectSeq(benchmark_weights, LAMBDA r : SameKey(r, merged_df[i]))
            r == SelectSeq(benchmark_returns, LAMBDA x : SameKey(x, merged_df[i]))
            wcells == IF w = <<>> THEN <<(<<>>)>>
                      ELSE [j \in DOMAIN w |-> <<w[j].sector_weight>>]
            rcells == IF r = <<>> THEN <<(<<>>)>>
                      ELSE [j \in DOMAIN r |-> <<r[j].sector_return>>]
        IN Concat([a \in DOMAIN wcells |->
              [b \in DOMAIN rcells |->
                 [date |-> merged_df[i].date, gics_sector |-> merged_df[i].gics_sector,
                  weight_portfolio |-> merged_df[i].weight_portfolio,
                  return_portfolio |-> merged_df[i].return_portfolio,
                  weight_benchmark |-> wcells[a],
                  return_benchmark |-> rcells[b]]]])])

\* merged_df.fillna(0, inplace=True).
fillna(merged_df) ==
    [i \in DOMAIN merged_df |->
        [merged_df[i] EXCEPT
            !.weight_benchmark = IF @ = <<>> THEN 0 ELSE @[1],
            !.return_benchmark = IF @ = <<>> THEN 0 ELSE @[1]]]

\* Mutant: the allocation effect is taken at the portfolio's return.
allocation_effect_at_portfolio_return(row) ==
    (row.weight_portfolio - row.weight_benchmark) * row.return_portfolio

\* (Wp - Wb) * Rb
allocation_effect(row) ==
    (row.weight_portfolio - row.weight_benchmark) * row.return_benchmark

\* Mutant: the selection effect is weighted by the benchmark's weight.
selection_effect_at_benchmark_weight(row) ==
    row.weight_benchmark * (row.return_portfolio - row.return_benchmark)

\* Wp * (Rp - Rb)
selection_effect(row) ==
    row.weight_portfolio * (row.return_portfolio - row.return_benchmark)

\* merged_df.groupby("date")[[...]].sum().reset_index()
groupby_date(merged_df) ==
    LET present == SelectSeq(DateOrder,
                     LAMBDA d : \E i \in DOMAIN merged_df : merged_df[i].date = d)
    IN [g \in DOMAIN present |->
          LET group == SelectSeq(merged_df, LAMBDA r : r.date = present[g])
          IN [date |-> present[g],
              allocation_effect |-> SumSeq(Column(group, "allocation_effect")),
              selection_effect |-> SumSeq(Column(group, "selection_effect")),
              total_active_return |-> SumSeq(Column(group, "total_active_return"))]]

brinson_hood_beebower(portfolio_weights, portfolio_returns, benchmark_weights, benchmark_returns) ==
    LET merged_df == fillna(merge_benchmark(
                         merge_portfolio(portfolio_weights, portfolio_returns),
                         benchmark_weights, benchmark_returns))
        with_effects ==
            [i \in DOMAIN merged_df |->
                [date |-> merged_df[i].date,
                 allocation_effect |-> allocation_effect(merged_df[i]),
                 selection_effect |-> selection_effect(merged_df[i]),
                 total_active_return |->
                     allocation_effect(merged_df[i]) + selection_effect(merged_df[i])]]
    IN groupby_date(with_effects)

InitAttribution ==
    /\ caller_port = <<>>
    /\ stock_list_tickers = <<>>
    /\ IdleFetcher
    /\ IdleDatabase
    /\ pc = "new"
    /\ port = <<>>
    /\ etf_holdings_dict = [k \in Range(ETFOrder) |-> NoHoldings]
    /\ stock_universe = [t \in {"AAA", "BBB"} |-> Absent]
    /\ result = NoResult
    /\ \E first \in AnyCells, second \in AnyCells, third \in SomeCells :
          LET cells == <<first, second, third>>
          IN series = [portfolio_weights |-> Frame(cells, "pw", "sector_weight"),
                       portfolio_returns |-> Frame(cells, "pr", "sector_return"),
                       benchmark_weights |-> Frame(cells, "bw", "sector_weight"),
                       benchmark_returns |-> Frame(cells, "br", "sector_return")]
    /\ attribution_df = <<>>
    /\ price_data = <<>>
    /\ returns_data = <<>>
    /\ agg_returns = <<>>
    /\ stock_and_sectors = NoStocks

\* PortfolioCalculations().brinson_hood_beebower(...), on frames given by the
\* caller or on those aggregate_portfolio_by_sector built; the four frames are
\* read, not written.  The method raises nothing on such frames and has no
\* print, log or warnings call: warnings is what it emitted.
BrinsonHoodBeebower ==
    /\ \/ pc = "new" /\ result.op = "none"
       \/ result.op = "aggregate_portfolio_by_sector"
    /\ attribution_df' = brinson_hood_beebower(series.portfolio_weights,
                                               series.portfolio_returns,
                                               series.benchmark_weights,
                                               series.benchmark_returns)
    /\ result' = [op |-> "brinson_hood_beebower", raised |-> "", warnings |-> <<>>]
    /\ UNCHANGED <<pc, port, etf_holdings_dict, stock_universe, series>>
    /\ UNCHANGED <<price_data, returns_data, agg_returns, stock_and_sectors>>
    /\ UNCHANGED <<stock_list_tickers, attempt, slept, responses, now>>
    /\ UNCHANGED <<environ, DATABASE_URL, engine_cache, engines, update_log, fundamental_overview>>
    /\ UNCHANGED caller_port

NextAttribution == BrinsonHoodBeebower

SpecAttribution == InitAttribution /\ [][NextAttribution]_vars

(***************************************************************************)
(* PortfolioCalculations.calculate_returns and aggregate_returns           *)
(*                                                                         *)
(* A wide table is a sequence of rows [date, AAA, BBB], the index in       *)
(* increasing order.  A cell is <<>> (NaN) or <<v>>; a price v is a        *)
(* positive integer, a return v the exact fraction [num, den].             *)
(***************************************************************************)
MaxDates == 3

Date(y, m, d) == [year |-> y, month |-> m, day |-> d]

\* The trading days a price table may hold: two months of year 1 (one with two
\* days), the year's last day and a day of year 2.
Calendar == <<Date(1, 1, 31), Date(1, 2, 1), Date(1, 2, 2), Date(1, 12, 31), Date(2, 1, 2)>>

DateIndexes ==
    {SelectSeq(Calendar, LAMBDA d : d \in {Calendar[i] : i \in S}) :
        S \in {T \in SUBSET DOMAIN Calendar : Cardinality(T) <= MaxDates}}

PriceColumns == <<"AAA", "BBB">>

PriceCells(t) == IF t = "AAA" THEN {<<1>>, <<2>>, <<3>>, <<>>} ELSE {<<1>>, <<2>>}

\* reshape_stock_prices' pivot: one row per date, one column per ticker, NaN
\* where a ticker has no price on the date.
PriceTables ==
    UNION {{[i \in DOMAIN idx |-> [date |-> idx[i], AAA |-> a[i], BBB |-> b[i]]] :
                a \in [DOMAIN idx -> PriceCells("AAA")],
                b \in [DOMAIN idx -> PriceCells("BBB")]} : idx \in DateIndexes}

\* price / price.shift(1) - 1 in one cell; NaN when either price is NaN.
price_change(price, shifted) ==
    IF price = <<>> \/ shifted = <<>> THEN <<>>
    ELSE LET quotient == Div(price[1], shifted[1])
         IN <<[num |-> quotient.num - quotient.den, den |-> quotient.den]>>

\* calculate_returns with the .dropna() the source has commented out.
calculate_returns_dropna(prices) ==
    LET all == [i \in DOMAIN prices |->
                  [c \in {"date"} \cup Range(PriceColumns) |->
                      IF c = "date" THEN prices[i].date
                      ELSE IF i = 1 THEN <<>>
                      ELSE price_change(prices[i][c], prices[i - 1][c])]]
    IN SelectSeq(all, LAMBDA row : \A c \in Range(PriceColumns) : row[c] # <<>>)

\* PortfolioCalculations.calculate_returns: shift(1) moves every column down one
\* row, so the first row has no previous price and is NaN.
calculate_returns(prices) ==
    [i \in DOMAIN prices |->
        [c \in {"date"} \cup Range(PriceColumns) |->
            IF c = "date" THEN prices[i].date
            ELSE IF i = 1 THEN <<>>
            ELSE price_change(prices[i][c], prices[i - 1][c])]]

\* The ordinal of the resample bin a date falls in: 'M' bins are calendar
\* months, 'A' bins calendar years.
bin_of(date, rule) == IF rule = "M" THEN 12 * (date.year - 1) + date.month ELSE date.year

month_end(month) == IF month = 2 THEN 28 ELSE IF month \in {4, 6, 9, 11} THEN 30 ELSE 31

\* The label of a bin: its last calendar day.
bin_label(bin, rule) ==
    IF rule = "M"
    THEN Date(((bin - 1) \div 12) + 1, ((bin - 1) % 12) + 1, month_end(((bin - 1) % 12) + 1))
    ELSE Date(bin, 12, 31)

\* Series.prod() of 1 + x: NaN terms are skipped (skipna), and the product of
\* no term is 1.
RECURSIVE prod_one_plus(_)
prod_one_plus(x) ==
    IF x = <<>> THEN Div(1, 1)
    ELSE LET rest == prod_one_plus(Tail(x))
         IN IF Head(x) = <<>> THEN rest
            ELSE [num |-> (Head(x)[1].num + Head(x)[1].den) * rest.num,
                  den |-> Head(x)[1].den * rest.den]

\* Sum of the returns of a bin in place of their compounding.
RECURSIVE sum_returns(_)
sum_returns(x) ==
    IF x = <<>> THEN <<Div(0, 1)>>
    ELSE LET rest == sum_returns(Tail(x))[1]
         IN IF Head(x) = <<>> THEN <<rest>>
            ELSE <<[num |-> Head(x)[1].num * rest.den + rest.num * Head(x)[1].den,
                    den |-> Head(x)[1].den * rest.den]>>

\* lambda x: np.prod(1 + x) - 1
compound(x) ==
    LET product == prod_one_plus(x)
    IN <<[num |-> product.num - product.den, den |-> product.den]>>

\* df_returns.resample(rule): one bin from the bin of the first date to the bin
\* of the last, empty bins included, each with its label and its rows.
resample(df_returns, rule) ==
    IF df_returns = <<>> THEN <<>>
    ELSE LET first == bin_of(df_returns[1].date, rule)
             last == bin_of(df_returns[Len(df_returns)].date, rule)
         IN [k \in 1..(last - first + 1) |->
                [date |-> bin_label(first + k - 1, rule),
                 rows |-> SelectSeq(df_returns,
                              LAMBDA row : bin_of(row.date, rule) = first + k - 1)]]

\* .apply(lambda x: x.sum()): the returns of every bin summed.
apply_sum(bins) ==
    [k \in DOMAIN bins |->
        [c \in {"date"} \cup Range(PriceColumns) |->
            IF c = "date" THEN bins[k].date ELSE sum_returns(Column(bins[k].rows, c))]]

\* .apply(lambda x: np.prod(1 + x) - 1): the function applied column by column
\* to the rows of every bin.
apply_compound(bins) ==
    [k \in DOMAIN bins |->
        [c \in {"date"} \cup Range(PriceColumns) |->
            IF c = "date" THEN bins[k].date ELSE compound(Column(bins[k].rows, c))]]

\* aggregate_returns that sums the returns of a window.
aggregate_returns_summed(df_returns, frequency) ==
    IF frequency = "daily" THEN [raised |-> "", agg_returns |-> df_returns]
    ELSE IF frequency = "monthly"
    THEN [raised |-> "", agg_returns |-> apply_sum(resample(df_returns, "M"))]
    ELSE IF frequency = "annually"
    THEN [raised |-> "", agg_returns |-> apply_sum(resample(df_returns, "A"))]
    ELSE [raised |-> "ValueError", agg_returns |-> <<>>]

\* aggregate_returns that takes every other token for 'daily'.
aggregate_returns_lenient(df_returns, frequency) ==
    IF frequency = "monthly"
    THEN [raised |-> "", agg_returns |-> apply_compound(resample(df_returns, "M"))]
    ELSE IF frequency = "annually"
    THEN [raised |-> "", agg_returns |-> apply_compound(resample(df_returns, "A"))]
    ELSE [raised |-> "", agg_returns |-> df_returns]

\* PortfolioCalculations.aggregate_returns: [raised |-> the exception's type or
\* "", agg_returns |-> the returned table].
aggregate_returns(df_returns, frequency) ==
    IF frequency = "daily" THEN [raised |-> "", agg_returns |-> df_returns]
    ELSE IF frequency = "monthly"
    THEN [raised |-> "", agg_returns |-> apply_compound(resample(df_returns, "M"))]
    ELSE IF frequency = "annually"
    THEN [raised |-> "", agg_returns |-> apply_compound(resample(df_returns, "A"))]
    ELSE [raised |-> "ValueError", agg_returns |-> <<>>]

\* The frequency tokens a caller may pass.
Frequencies == {"daily", "monthly", "annually", "annual", "weekly", "Monthly"}

InitReturns ==
    /\ caller_port = <<>>
    /\ stock_list_tickers = <<>>
    /\ IdleFetcher
    /\ IdleDatabase
    /\ pc = "new"
    /\ port = <<>>
    /\ etf_holdings_dict = [k \in Range(ETFOrder) |-> NoHoldings]
    /\ stock_universe = [t \in {"AAA", "BBB"} |-> Absent]
    /\ result = NoResult
    /\ series = NoSeries
    /\ attribution_df = <<>>
    /\ price_data \in PriceTables
    /\ returns_data = <<>>
    /\ agg_returns = <<>>
    /\ stock_and_sectors = NoStocks

\* returns_data = port_calc.calculate_returns(price_df)
CalculateReturns ==
    /\ result.op = "none"
    /\ returns_data' = calculate_returns(price_data)
    /\ result' = [op |-> "calculate_returns"]
    /\ UNCHANGED <<pc, port, etf_holdings_dict, stock_universe, series, attribution_df>>
    /\ UNCHANGED <<price_data, agg_returns, stock_and_sectors>>
    /\ UNCHANGED <<stock_list_tickers, attempt, slept, responses, now>>
    /\ UNCHANGED <<environ, DATABASE_URL, engine_cache, engines, update_log, fundamental_overview>>
    /\ UNCHANGED caller_port

\* port_calc.aggregate_returns(returns_data, frequency)
AggregateReturns ==
    /\ result.op = "calculate_returns"
    /\ \E frequency \in Frequencies :
          LET returned == aggregate_returns(returns_data, frequency)
          IN /\ agg_returns' = returned.agg_returns
             /\ result' = [op |-> "aggregate_returns", frequency |-> frequency,
                           raised |-> returned.raised]
    /\ UNCHANGED <<pc, port, etf_holdings_dict, stock_universe, series, attribution_df>>
    /\ UNCHANGED <<price_data, returns_data, stock_and_sectors>>
    /\ UNCHANGED <<stock_list_tickers, attempt, slept, responses, now>>
    /\ UNCHANGED <<environ, DATABASE_URL, engine_cache, engines, update_log, fundamental_overview>>
    /\ UNCHANGED caller_port

NextReturns ==
    \/ CalculateReturns
    \/ AggregateReturns

SpecReturns == InitReturns /\ [][NextReturns]_vars

(***************************************************************************)
(* PortfolioCalculations.aggregate_portfolio_by_sector                     *)
(*                                                                         *)
(* returns_df is the wide table [date, AAA, BBB, CCC] of returns per       *)
(* period (date 1, 2), a return being a whole number or NaN.  A stock      *)
(* table has the columns ticker, gics_sector and port_weight_pct.  The     *)
(* weight column (port_weight_pct / 100) is held in halves: 2 stands for   *)
(* 1.0, so sector_weight and sector_return are in halves and the three     *)
(* effects computed from them in quarters.                                 *)
(***************************************************************************)
ReturnColumns == <<"AAA", "BBB", "CCC">>

ReturnsOf(t) ==
    IF t = "AAA" THEN {<<>>} \cup {<<r>> : r \in 0..MaxReturn}
    ELSE IF t = "BBB" THEN {<<r>> : r \in 0..MaxReturn}
    ELSE {<<0>>, <<1>>}

\* returns_monthly.reset_index(): one row per period.
ReturnTables ==
    UNION {{[i \in 1..n |-> [date |-> DateOrder[i], AAA |-> a[i], BBB |-> b[i], CCC |-> c[i]]] :
                a \in [1..n -> ReturnsOf("AAA")],
                b \in [1..n -> ReturnsOf("BBB")],
                c \in [1..n -> ReturnsOf("CCC")]} : n \in 1..Len(DateOrder)}

Stock(t, sector, pct) ==
    [ticker |-> t, gics_sector |-> map_to_gics_sector(sector), port_weight_pct |-> pct]

\* The stock tables of a portfolio or a benchmark: empty, one stock, two stocks
\* in one or in two sectors, a stock at weight 0, half of the weight missing,
\* and a stock (DDD) that has no column in returns_df.
StockTables ==
    { <<>>,
      <<Stock("AAA", "Technology", 100)>>,
      <<Stock("BBB", "Technology", 100)>>,
      <<Stock("AAA", "Technology", 50), Stock("BBB", "Energy", 50)>>,
      <<Stock("CCC", "Technology", 50), Stock("BBB", "Energy", 50)>>,
      <<Stock("AAA", "Technology", 50), Stock("BBB", "Technology", 50)>>,
      <<Stock("AAA", "Technology", 100), Stock("BBB", "Energy", 0)>>,
      <<Stock("AAA", "Technology", 50)>>,
      <<Stock("AAA", "Technology", 50), Stock("DDD", "Energy", 50)>> }

\* assign(weight = port_weight_pct) with the division by 100 left out.
assign_weight_percent(table) ==
    [i \in DOMAIN table |->
        [ticker |-> table[i].ticker, gics_sector |-> table[i].gics_sector,
         weight |-> 2 * table[i].port_weight_pct]]

\* .assign(weight = port_to_stocks["port_weight_pct"] / 100).drop(columns=
\* "port_weight_pct"); the weight in halves.
assign_weight(table) ==
    [i \in DOMAIN table |->
        [ticker |-> table[i].ticker, gics_sector |-> table[i].gics_sector,
         weight |-> (2 * table[i].port_weight_pct) \div 100]]

\* returns_df.melt(id_vars=["date"], var_name="ticker", value_name="return"):
\* column after column, the dates of each in order.
melt(returns_df) ==
    Concat([c \in DOMAIN ReturnColumns |->
        [i \in DOMAIN returns_df |->
            [date |-> returns_df[i].date, ticker |-> ReturnColumns[c],
             return |-> returns_df[i][ReturnColumns[c]]]]])

\* merged_df.merge(port_to_stocks, on="ticker", how="left"): every row of the
\* melted returns once per matching stock row, or once with NaN gics_sector
\* and weight.
merge_stocks(merged_df, stocks) ==
    Concat([i \in DOMAIN merged_df |->
        LET right == SelectSeq(stocks, LAMBDA r : r.ticker = merged_df[i].ticker)
        IN IF right = <<>>
           THEN <<[date |-> merged_df[i].date, ticker |-> merged_df[i].ticker,
                   return |-> merged_df[i].return, gics_sector |-> NaN, weight |-> <<>>]>>
           ELSE [j \in DOMAIN right |->
                   [date |-> merged_df[i].date, ticker |-> merged_df[i].ticker,
                    return |-> merged_df[i].return,
                    gics_sector |-> right[j].gics_sector, weight |-> <<right[j].weight>>]]])

\* The return weighted by the stock's share of its sector's weight on the date.
weighted_return_within_sector(merged_df, i) ==
    LET sector == SelectSeq(merged_df,
                     LAMBDA r : r.date = merged_df[i].date
                                /\ r.gics_sector = merged_df[i].gics_sector)
        total == SumSeq([k \in DOMAIN sector |->
                            IF sector[k].weight = <<>> THEN 0 ELSE sector[k].weight[1]])
    IN IF merged_df[i].return = <<>> \/ merged_df[i].weight = <<>> \/ total = 0 THEN <<>>
       ELSE <<(merged_df[i].return[1] * merged_df[i].weight[1] * 2) \div total>>

\* merged_df["return"] * merged_df["weight"]: NaN when either is.
weighted_return(merged_df, i) ==
    IF merged_df[i].return = <<>> \/ merged_df[i].weight = <<>> THEN <<>>
    ELSE <<merged_df[i].return[1] * merged_df[i].weight[1]>>

\* Series.sum(): NaN is skipped.
sum_skipna(cells) ==
    SumSeq([k \in DOMAIN cells |-> IF cells[k] = <<>> THEN 0 ELSE cells[k][1]])

\* merged_df.groupby(["date", "gics_sector"], as_index=False)[column].sum()
\* and the rename to out: one row per (date, gics_sector) present, sorted; rows
\* whose gics_sector is NaN form no group.
groupby_date_gics_sector(merged_df, column, out) ==
    LET present(d) == SelectSeq(SectorOrder,
                         LAMBDA g : \E i \in DOMAIN merged_df :
                                      merged_df[i].date = d /\ merged_df[i].gics_sector = g)
        group_keys == Concat([d \in DOMAIN DateOrder |->
                        [k \in DOMAIN present(DateOrder[d]) |->
                            [date |-> DateOrder[d], gics_sector |-> present(DateOrder[d])[k]]]])
    IN [g \in DOMAIN group_keys |->
          LET group == SelectSeq(merged_df, LAMBDA r : SameKey(r, group_keys[g]))
          IN IF out = "sector_weight"
             THEN [date |-> group_keys[g].date, gics_sector |-> group_keys[g].gics_sector,
                   sector_weight |-> sum_skipna(Column(group, column))]
             ELSE [date |-> group_keys[g].date, gics_sector |-> group_keys[g].gics_sector,
                   sector_return |-> sum_skipna(Column(group, column))]]

\* PortfolioCalculations.aggregate_portfolio_by_sector: the pair
\* (sector_weights_df, sector_returns_df).
aggregate_portfolio_by_sector(returns_df, stocks) ==
    LET merged_df == merge_stocks(melt(returns_df), assign_weight(stocks))
        assigned == [i \in DOMAIN merged_df |->
                       [date |-> merged_df[i].date,
                        gics_sector |-> merged_df[i].gics_sector,
                        weight |-> merged_df[i].weight,
                        weighted_return |-> weighted_return(merged_df, i)]]
    IN [sector_weights_df |-> groupby_date_gics_sector(assigned, "weight", "sector_weight"),
        sector_returns_df |-> groupby_date_gics_sector(assigned, "weighted_return",
                                                       "sector_return")]

InitSectorSeries ==
    /\ caller_port = <<>>
    /\ stock_list_tickers = <<>>
    /\ IdleFetcher
    /\ IdleDatabase
    /\ pc = "script"
    /\ port = <<>>
    /\ etf_holdings_dict = [k \in Range(ETFOrder) |-> NoHoldings]
    /\ stock_universe = [t \in {"AAA", "BBB"} |-> Absent]
    /\ result = NoResult
    /\ series = NoSeries
    /\ attribution_df = <<>>
    /\ price_data = <<>>
    /\ returns_data = <<>>
    /\ agg_returns \in ReturnTables
    /\ \E portfolio \in StockTables, benchmark \in StockTables :
          stock_and_sectors = [portfolio |-> portfolio, benchmark |-> benchmark]

\* The two calls of aggregate_portfolio_by_sector the attribution script makes,
\* for the portfolio and for the benchmark, on the same returns.
AggregatePortfolioBySector ==
    /\ pc = "script"
    /\ result.op = "none"
    /\ LET portfolio == aggregate_portfolio_by_sector(agg_returns, stock_and_sectors.portfolio)
           benchmark == aggregate_portfolio_by_sector(agg_returns, stock_and_sectors.benchmark)
       IN series' = [portfolio_weights |-> portfolio.sector_weights_df,
                     portfolio_returns |-> portfolio.sector_returns_df,
                     benchmark_weights |-> benchmark.sector_weights_df,
                     benchmark_returns |-> benchmark.sector_returns_df]
    /\ result' = [op |-> "aggregate_portfolio_by_sector"]
    /\ UNCHANGED <<pc, port, etf_holdings_dict, stock_universe, attribution_df>>
    /\ UNCHANGED <<price_data, returns_data, agg_returns, stock_and_sectors>>
    /\ UNCHANGED <<stock_list_tickers, attempt, slept, responses, now>>
    /\ UNCHANGED <<environ, DATABASE_URL, engine_cache, engines, update_log, fundamental_overview>>
    /\ UNCHANGED caller_port

NextSectorSeries ==
    \/ AggregatePortfolioBySector
    \/ BrinsonHoodBeebower

SpecSectorSeries == InitSectorSeries /\ [][NextSectorSeries]_vars

(***************************************************************************)
(* What the decomposition is expected to emit, stated over the inputs      *)
(***************************************************************************)
\* One element per allocation the portfolio gives rise to: position pos of the
\* portfolio, through constituent con of its holdings table (con = 0 for a
\* position held directly), in tenths of a dollar.
HasHoldings(t) == t \in DOMAIN etf_holdings_dict /\ etf_holdings_dict[t] # NoHoldings

Emissions ==
    UNION {
        IF HasHoldings(port[i].ticker)
        THEN {[pos |-> i, con |-> j,
               ticker |-> etf_holdings_dict[port[i].ticker][j].ticker,
               name |-> etf_holdings_dict[port[i].ticker][j].name,
               tenths |-> etf_holdings_dict[port[i].ticker][j].weight * port[i].PositionValue] :
                  j \in DOMAIN etf_holdings_dict[port[i].ticker]}
        ELSE {[pos |-> i, con |-> 0, ticker |-> port[i].ticker, name |-> port[i].name,
               tenths |-> 10 * port[i].PositionValue]} : i \in DOMAIN port}

RECURSIVE SumTenths(_)
SumTenths(S) ==
    IF S = {} THEN 0 ELSE LET e == CHOOSE x \in S : TRUE IN e.tenths + SumTenths(S \ {e})

RowsOf(rows, t) == {i \in DOMAIN rows : rows[i].ticker = t}

RowsOfPair(rows, t, n) == {i \in DOMAIN rows : rows[i].ticker = t /\ rows[i].name = n}

StocksReturned == result.op = "decompose_stocks" /\ result.raised = ""

SectorsCalled == result.op = "decompose_sectors"

(***************************************************************************)
(* C1 -- whenever decompose_stocks returns a non-empty table, its          *)
(* port_weight column sums to 1.                                           *)
(***************************************************************************)
C1_PortWeightSumsToOne ==
    (StocksReturned /\ result.rows # <<>>)
        => EqualsOne(SumFractions(Column(result.rows, "port_weight")))

(***************************************************************************)
(* C2 as claimed -- in the table decompose_stocks returns every ticker     *)
(* that received an allocation is in exactly one row, which carries the    *)
(* sum of all allocations to that ticker.                                  *)
(***************************************************************************)
C2_TickerInOneRow ==
    StocksReturned =>
        \A t \in {e.ticker : e \in Emissions} :
            /\ Cardinality(RowsOf(result.rows, t)) = 1
            /\ \A i \in RowsOf(result.rows, t) :
                  10 * result.rows[i].allocation
                      = SumTenths({e \in Emissions : e.ticker = t})

(***************************************************************************)
(* C2 as amended -- every (ticker, name) pair that received an allocation  *)
(* is in exactly one row, which carries the sum of all allocations to that *)
(* pair (over every ETF position holding it and any direct position), and   *)
(* the table has no other row; a ticker emitted under one name only is     *)
(* therefore in exactly one row.                                           *)
(***************************************************************************)
C2_PairInOneRow ==
    StocksReturned =>
        /\ \A e \in Emissions :
              /\ Cardinality(RowsOfPair(result.rows, e.ticker, e.name)) = 1
              /\ \A i \in RowsOfPair(result.rows, e.ticker, e.name) :
                    10 * result.rows[i].allocation
                        = SumTenths({x \in Emissions :
                                       x.ticker = e.ticker /\ x.name = e.name})
        /\ \A i \in DOMAIN result.rows :
              \E e \in Emissions :
                  e.ticker = result.rows[i].ticker /\ e.name = result.rows[i].name
        /\ \A t \in {e.ticker : e \in Emissions} :
              Cardinality({e.name : e \in {x \in Emissions : x.ticker = t}}) = 1
                  => Cardinality(RowsOf(result.rows, t)) = 1

\* Two $1000 ETF positions holding AAA at 0.5 and 0.3 gave one AAA row of 800.
C2_Witness ==
    /\ StocksReturned
    /\ Len(port) = 2
    /\ port[1].ticker = "ETF1" /\ port[1].PositionValue = 1000
    /\ port[2].ticker = "ETF2" /\ port[2].PositionValue = 1000
    /\ etf_holdings_dict["ETF1"] = <<Constituent("AAA", "AAA Corp", 5)>>
    /\ etf_holdings_dict["ETF2"] = <<Constituent("AAA", "AAA Corp", 3)>>
    /\ Len(result.rows) = 1
    /\ result.rows[1].ticker = "AAA"
    /\ result.rows[1].allocation = 800

(***************************************************************************)
(* C3 -- every ETF position of value V contributes exactly V * c.weight to *)
(* the row of each of its constituents c, the weights taken as they are    *)
(* (not renormalised): a row's allocation is the sum of those products and *)
(* of the direct positions in it.  A sole ETF position of $1000 holding    *)
(* {AAA: 0.6, BBB: 0.4} yields AAA 600 at weight 0.6 and BBB 400 at 0.4.   *)
(***************************************************************************)
SoleEtf6040 ==
    /\ Len(port) = 1
    /\ port[1].ticker = "ETF1" /\ port[1].PositionValue = 1000
    /\ etf_holdings_dict["ETF1"]
         = <<Constituent("AAA", "AAA Corp", 6), Constituent("BBB", "BBB Corp", 4)>>

C3_AllocationIsValueTimesWeight ==
    StocksReturned =>
        /\ \A i \in DOMAIN result.rows :
              10 * result.rows[i].allocation
                  = SumTenths({e \in Emissions : e.ticker = result.rows[i].ticker
                                                 /\ e.name = result.rows[i].name})
        /\ SoleEtf6040 =>
              /\ Len(result.rows) = 2
              /\ result.rows[1].ticker = "AAA" /\ result.rows[1].allocation = 600
              /\ result.rows[1].port_weight.den # 0
              /\ 10 * result.rows[1].port_weight.num = 6 * result.rows[1].port_weight.den
              /\ result.rows[2].ticker = "BBB" /\ result.rows[2].allocation = 400
              /\ result.rows[2].port_weight.den # 0
              /\ 10 * result.rows[2].port_weight.num = 4 * result.rows[2].port_weight.den

\* An ETF whose weights sum to less than 1 was decomposed.
C3_Witness ==
    /\ StocksReturned
    /\ Len(port) = 1
    /\ port[1].ticker = "ETF1" /\ port[1].PositionValue = 1000
    /\ etf_holdings_dict["ETF1"] = <<Constituent("AAA", "AAA Corp", 5)>>
    /\ \E i \in DOMAIN result.rows :
          result.rows[i].ticker = "AAA" /\ result.rows[i].allocation = 500

(***************************************************************************)
(* C4 -- decompose_stocks fails with an EmptyPortfolioError, returning no  *)
(* table, when the position list is empty or the total allocation is zero. *)
(***************************************************************************)
C4_EmptyPortfolioRaises ==
    (result.op = "decompose_stocks" /\ (port = <<>> \/ SumTenths(Emissions) = 0))
        => (result.raised = "EmptyPortfolioError" /\ result.rows = <<>>)

(***************************************************************************)
(* C5 -- a ticker that is missing from the stock-to-sector lookup, or      *)
(* whose raw label is "N/A" or unrecognised, lands in the catch-all        *)
(* sector: decompose_sectors raises nothing and returns a table in which   *)
(* the catch-all row is present with non-zero allocation and weight.       *)
(***************************************************************************)
Unclassified(t) ==
    \/ t \notin DOMAIN stock_universe
    \/ stock_universe[t] = Absent
    \/ stock_universe[t] = "N/A"
    \/ stock_universe[t] \notin DOMAIN mapping

C5_UnclassifiedGoesToCatchAll ==
    LET port_to_stocks == decompose_stocks(port, etf_holdings_dict)
    IN (/\ SectorsCalled
        /\ \E i \in DOMAIN port_to_stocks :
              port_to_stocks[i].allocation # 0 /\ Unclassified(port_to_stocks[i].ticker))
        => /\ result.raised = ""
           /\ \E k \in DOMAIN result.rows :
                 /\ result.rows[k].gics_sector = map_to_gics_sector("N/A")
                 /\ result.rows[k].allocation # 0
                 /\ IsNumber(result.rows[k].port_weight)
                 /\ result.rows[k].port_weight.num # 0

(***************************************************************************)
(* C6 as claimed -- the classifier returns a string for every label and    *)
(* maps every label outside its table, and "", None and "N/A", to          *)
(* "Unknown/Unmapped".                                                     *)
(***************************************************************************)
Classified == result.op \in {"map_to_gics_sector", "calculations.map_to_gics_sector"}

FallsThrough(label) ==
    label \notin DOMAIN mapping \/ label \in {"", None, "N/A"}

C7_SectorWeightSumsToOne ==
    (SectorsCalled /\ result.raised = "")
        => EqualsOne(SumFractions(Column(result.rows, "port_weight")))

(***************************************************************************)
(* What the attribution is expected to return, stated over the four frames *)
(***************************************************************************)
Attributed == result.op = "brinson_hood_beebower"

KeysOf(frame) == {[date |-> frame[i].date, gics_sector |-> frame[i].gics_sector] :
                    i \in DOMAIN frame}

\* The frame's value at a key, 0 where it has no row.
Value(frame, column, k) ==
    IF k \in KeysOf(frame)
    THEN frame[CHOOSE i \in DOMAIN frame : SameKey(frame[i], k)][column]
    ELSE 0

Wp(k) == Value(series.portfolio_weights, "sector_weight", k)

Rp(k) == Value(series.portfolio_returns, "sector_return", k)

Wb(k) == Value(series.benchmark_weights, "sector_weight", k)

Rb(k) == Value(series.benchmark_returns, "sector_return", k)

SumOver(S, F(_)) ==
    LET sum[T \in SUBSET S] ==
            IF T = {} THEN 0
            ELSE LET x == CHOOSE y \in T : TRUE IN F(x) + sum[T \ {x}]
    IN sum[S]

OnDate(K, d) == {k \in K : k.date = d}

DatesOf(K) == {k.date : k \in K}

RowsOn(d) == {i \in DOMAIN attribution_df : attribution_df[i].date = d}

\* The keys the portfolio's two frames both hold.
PortfolioKeys == KeysOf(series.portfolio_weights) \cap KeysOf(series.portfolio_returns)

\* attribution_df has exactly one row for every date of K and no other row, and
\* the row of a date holds the three effects summed over the keys of K on it.
SumsOver(K) ==
    /\ {attribution_df[i].date : i \in DOMAIN attribution_df} = DatesOf(K)
    /\ \A d \in DatesOf(K) :
          /\ Cardinality(RowsOn(d)) = 1
          /\ \A i \in RowsOn(d) :
                /\ attribution_df[i].allocation_effect
                     = SumOver(OnDate(K, d), LAMBDA k : (Wp(k) - Wb(k)) * Rb(k))
                /\ attribution_df[i].selection_effect
                     = SumOver(OnDate(K, d), LAMBDA k : Wp(k) * (Rp(k) - Rb(k)))
                /\ attribution_df[i].total_active_return
                     = SumOver(OnDate(K, d),
                               LAMBDA k : (Wp(k) - Wb(k)) * Rb(k) + Wp(k) * (Rp(k) - Rb(k)))

(***************************************************************************)
(* C8 -- brinson_hood_beebower computes, for every (date, sector) row of   *)
(* the portfolio, allocation_effect = (Wp - Wb) * Rb, selection_effect =   *)
(* Wp * (Rp - Rb) and their sum, and returns exactly one row per date      *)
(* holding the sums of the three over the sectors of that date.            *)
(***************************************************************************)
C8_EffectsSummedPerDate == Attributed => SumsOver(PortfolioKeys)

\* Two sectors on the first date and one on the second, the benchmark present:
\* two rows came back, the first with a non-zero selection effect.
C8_Witness ==
    /\ Attributed
    /\ Cardinality(OnDate(PortfolioKeys, 1)) = 2
    /\ Cardinality(OnDate(PortfolioKeys, 2)) = 1
    /\ \A k \in PortfolioKeys : Wb(k) # 0 /\ Rb(k) # 0
    /\ Len(attribution_df) = 2
    /\ attribution_df[1].selection_effect # 0
    /\ attribution_df[1].allocation_effect # 0

(***************************************************************************)
(* C9 -- the effects are evaluated over the outer join of the portfolio    *)
(* and benchmark series on (date, sector), the missing side zero-filled:   *)
(* a key only the benchmark holds is included with Wp = Rp = 0 (its        *)
(* allocation_effect is -Wb * Rb), a key only the portfolio holds with     *)
(* Wb = Rb = 0.  Stated for frames in which each side's weights and        *)
(* returns hold the same keys.                                             *)
(***************************************************************************)
C9_OuterJoinZeroFilled ==
    (/\ Attributed
     /\ KeysOf(series.portfolio_weights) = KeysOf(series.portfolio_returns)
     /\ KeysOf(series.benchmark_weights) = KeysOf(series.benchmark_returns))
        => SumsOver(KeysOf(series.portfolio_weights) \cup KeysOf(series.benchmark_weights))

(***************************************************************************)
(* C10 -- conservation: on every date on which the four frames hold the    *)
(* same sectors (so nothing is zero-filled), the total_active_return       *)
(* returned equals the sum over the sectors of Wp * Rp minus the sum over  *)
(* the sectors of Wb * Rb.                                                 *)
(***************************************************************************)
Reconciled(d) ==
    /\ OnDate(KeysOf(series.portfolio_weights), d) # {}
    /\ OnDate(KeysOf(series.portfolio_weights), d)
         = OnDate(KeysOf(series.portfolio_returns), d)
    /\ OnDate(KeysOf(series.portfolio_weights), d)
         = OnDate(KeysOf(series.benchmark_weights), d)
    /\ OnDate(KeysOf(series.portfolio_weights), d)
         = OnDate(KeysOf(series.benchmark_returns), d)

C10_Conservation ==
    Attributed =>
        \A d \in Range(DateOrder) :
            Reconciled(d) =>
                /\ Cardinality(RowsOn(d)) = 1
                /\ \A i \in RowsOn(d) :
                      attribution_df[i].total_active_return
                          = SumOver(OnDate(PortfolioKeys, d), LAMBDA k : Wp(k) * Rp(k))
                            - SumOver(OnDate(PortfolioKeys, d), LAMBDA k : Wb(k) * Rb(k))

\* Both sectors of the first date are in all four frames, at weights and
\* returns that differ between the sides, and the active return is not zero.
C10_Witness ==
    /\ Attributed
    /\ Reconciled(1)
    /\ Cardinality(OnDate(PortfolioKeys, 1)) = 2
    /\ \E k \in OnDate(PortfolioKeys, 1) : Wp(k) # Wb(k) /\ Rp(k) # Rb(k)
    /\ \E i \in RowsOn(1) : attribution_df[i].total_active_return # 0

(***************************************************************************)
(* What the returns tables are expected to hold, stated over the inputs    *)
(***************************************************************************)
Calculated == result.op \in {"calculate_returns", "aggregate_returns"}

Aggregated(frequency) ==
    result.op = "aggregate_returns" /\ result.frequency = frequency /\ result.raised = ""

\* The calendar window of a date: its month, or its year.
WindowOf(date, frequency) ==
    IF frequency = "monthly" THEN <<date.year, date.month>> ELSE <<date.year>>

\* The rows of returns_data that fall in the window of row w of agg_returns.
RowsIn(w, frequency) ==
    {i \in DOMAIN returns_data :
        WindowOf(returns_data[i].date, frequency) = WindowOf(agg_returns[w].date, frequency)}

Defined(I, c) == {i \in I : returns_data[i][c] # <<>>}

\* The product of (1 + r_i) over the rows I of column c, as a fraction.
Growth(I, c) ==
    LET g[T \in SUBSET I] ==
            IF T = {} THEN Div(1, 1)
            ELSE LET i == CHOOSE j \in T : TRUE
                     r == returns_data[i][c][1]
                 IN [num |-> (r.num + r.den) * g[T \ {i}].num,
                     den |-> r.den * g[T \ {i}].den]
    IN g[I]

\* cell holds prod(1 + r_i) - 1 over the rows I of column c.
IsCompounded(cell, I, c) ==
    /\ cell # <<>>
    /\ cell[1].den # 0
    /\ cell[1].num * Growth(I, c).den
           = (Growth(I, c).num - Growth(I, c).den) * cell[1].den

\* agg_returns has one row per window of returns_data, in increasing order.
OneRowPerWindow(frequency) ==
    /\ \A i \in DOMAIN returns_data : \E w \in DOMAIN agg_returns : i \in RowsIn(w, frequency)
    /\ \A v, w \in DOMAIN agg_returns :
          v < w => \/ agg_returns[v].date.year < agg_returns[w].date.year
                   \/ /\ agg_returns[v].date.year = agg_returns[w].date.year
                      /\ agg_returns[v].date.month < agg_returns[w].date.month

C14_NaNIgnoredUnlessAll ==
    \A frequency \in {"monthly", "annually"} :
        Aggregated(frequency) =>
            \A w \in DOMAIN agg_returns : \A c \in Range(PriceColumns) :
                LET I == RowsIn(w, frequency)
                IN I # {} =>
                      IF Defined(I, c) = {}
                      THEN agg_returns[w][c] = <<>>
                      ELSE IsCompounded(agg_returns[w][c], Defined(I, c), c)

C16_RecognisedAreDailyMonthlyAnnual ==
    result.op = "aggregate_returns" =>
        (result.raised = "ValueError") = (result.frequency \notin {"daily", "monthly", "annual"})

\* C16 as the code has it: the recognised tokens are 'daily', 'monthly' and
\* 'annually'; every other token raises ValueError and no table is returned.
C16_RecognisedAreDailyMonthlyAnnually ==
    result.op = "aggregate_returns" =>
        /\ (result.raised = "ValueError")
               = (result.frequency \notin {"daily", "monthly", "annually"})
        /\ result.raised \in {"", "ValueError"}
        /\ result.raised = "ValueError" => agg_returns = <<>>

\* The token 'annual' was passed and refused.
C16_Witness ==
    /\ result.op = "aggregate_returns"
    /\ result.frequency = "annual"
    /\ result.raised = "ValueError"
    /\ Len(returns_data) = 2

(***************************************************************************)
(* What the sector series are expected to hold, stated over the inputs     *)
(***************************************************************************)
SeriesBuilt ==
    pc = "script" /\ result.op \in {"aggregate_portfolio_by_sector", "brinson_hood_beebower"}

PipelineAttributed == pc = "script" /\ Attributed

\* The return of ticker t in period d, as a cell.
ReturnAt(d, t) ==
    agg_returns[CHOOSE i \in DOMAIN agg_returns : agg_returns[i].date = d][t]

PeriodsOf(returns_df) == {returns_df[i].date : i \in DOMAIN returns_df}

\* The rows of a stock table that have a column in returns_df.
Priced(table) == {k \in DOMAIN table : table[k].ticker \in Range(ReturnColumns)}

\* The sum of return * port_weight_pct over the stocks of the table assigned to
\* the sector whose return in period d is defined.
ReturnTimesPct(table, d, sector) ==
    SumOver({k \in Priced(table) : /\ table[k].gics_sector = sector
                                   /\ ReturnAt(d, table[k].ticker) # <<>>},
            LAMBDA k : ReturnAt(d, table[k].ticker)[1] * table[k].port_weight_pct)

\* frame is the sector_returns_df of table: a row for every period and every
\* sector of a priced stock, holding ReturnTimesPct / 100 (in halves).
IsSectorReturns(frame, table) ==
    /\ KeysOf(frame) = {[date |-> d, gics_sector |-> table[k].gics_sector] :
                           d \in PeriodsOf(agg_returns), k \in Priced(table)}
    /\ Cardinality(KeysOf(frame)) = Len(frame)
    /\ \A i \in DOMAIN frame :
          50 * frame[i].sector_return
              = ReturnTimesPct(table, frame[i].date, frame[i].gics_sector)

(***************************************************************************)
(* C20 -- aggregate_portfolio_by_sector yields, for every date and sector, *)
(* sector_return = the sum over the tickers assigned to the sector of      *)
(* return[date, ticker] * weight[ticker], the weight being the stock's     *)
(* share of the whole portfolio (port_weight_pct / 100), not renormalised  *)
(* within the sector.                                                      *)
(***************************************************************************)
C20_SectorReturnIsWeightedSum ==
    SeriesBuilt =>
        /\ IsSectorReturns(series.portfolio_returns, stock_and_sectors.portfolio)
        /\ IsSectorReturns(series.benchmark_returns, stock_and_sectors.benchmark)

\* AAA is alone in its sector at half of the portfolio and returned 2: the
\* sector's return is 1.0 (2 halves), not 2.0.
C20_Witness ==
    /\ SeriesBuilt
    /\ stock_and_sectors.portfolio
         = <<Stock("AAA", "Technology", 50), Stock("BBB", "Energy", 50)>>
    /\ ReturnAt(1, "AAA") = <<2>>
    /\ \E i \in DOMAIN series.portfolio_returns :
          /\ series.portfolio_returns[i].date = 1
          /\ series.portfolio_returns[i].gics_sector = "Information Technology"
          /\ series.portfolio_returns[i].sector_return = 2

\* The sum of a side's sector_return over the sectors of period d (in halves).
SideReturn(frame, d) ==
    SumOver({i \in DOMAIN frame : frame[i].date = d}, LAMBDA i : frame[i].sector_return)

\* Both sides hold the same sectors in period d, every sector at the same weight
\* on both sides, each side's weights sum to 1, and every return of the period
\* is defined.
FullyReconciled(d) ==
    /\ Reconciled(d)
    /\ \A k \in OnDate(PortfolioKeys, d) : Wp(k) = Wb(k)
    /\ SumOver(OnDate(PortfolioKeys, d), Wp) = 2
    /\ SumOver(OnDate(PortfolioKeys, d), Wb) = 2
    /\ \A t \in Range(ReturnColumns) : ReturnAt(d, t) # <<>>

(***************************************************************************)
(* C11 -- end to end, on series built by aggregate_portfolio_by_sector     *)
(* whose sector sets and weights are fully reconciled, the                 *)
(* total_active_return of every date equals the portfolio's return minus   *)
(* the benchmark's return, each the sum over the sectors of the side's     *)
(* sector_return.  (total_active_return is in quarters, the returns in     *)
(* halves.)                                                                *)
(***************************************************************************)
C11_ExactEndToEnd ==
    PipelineAttributed =>
        \A d \in PeriodsOf(agg_returns) :
            FullyReconciled(d) =>
                \A i \in RowsOn(d) :
                    attribution_df[i].total_active_return
                        = 2 * (SideReturn(series.portfolio_returns, d)
                               - SideReturn(series.benchmark_returns, d))

\* Portfolio and benchmark each hold one sector at weight 1.
SingleSector(d) ==
    /\ Reconciled(d)
    /\ Cardinality(OnDate(PortfolioKeys, d)) = 1
    /\ \A k \in OnDate(PortfolioKeys, d) : Wp(k) = 2 /\ Wb(k) = 2

\* Scenario 1: the portfolio is 100% AAA, the benchmark 100% BBB, both of raw
\* sector "Technology".
Scenario1 ==
    /\ stock_and_sectors.portfolio = <<Stock("AAA", "Technology", 100)>>
    /\ stock_and_sectors.benchmark = <<Stock("BBB", "Technology", 100)>>

(***************************************************************************)
(* C12 -- in a single-sector case with Wp = Wb = 1 the attribution of      *)
(* every date has allocation_effect = 0 and selection_effect = Rp - Rb; in *)
(* scenario 1 the sector is "Information Technology" and selection_effect  *)
(* = R_AAA - R_BBB.  (The effects are in quarters, Rp and Rb in halves.)   *)
(***************************************************************************)
C12_SingleSectorSelection ==
    PipelineAttributed =>
        \A d \in PeriodsOf(agg_returns) :
            /\ SingleSector(d) =>
                  /\ Cardinality(RowsOn(d)) = 1
                  /\ \A i \in RowsOn(d) : \A k \in OnDate(PortfolioKeys, d) :
                        /\ attribution_df[i].allocation_effect = 0
                        /\ attribution_df[i].selection_effect = 2 * (Rp(k) - Rb(k))
            /\ (Scenario1 /\ ReturnAt(d, "AAA") # <<>>) =>
                  /\ SingleSector(d)
                  /\ \A k \in OnDate(PortfolioKeys, d) :
                        k.gics_sector = "Information Technology"
                  /\ \A i \in RowsOn(d) :
                        attribution_df[i].selection_effect
                            = 4 * (ReturnAt(d, "AAA")[1] - ReturnAt(d, "BBB")[1])

\* Scenario 1 was attributed over two periods, AAA ahead of BBB in the first.
C12_Witness ==
    /\ PipelineAttributed
    /\ Scenario1
    /\ Len(agg_returns) = 2
    /\ ReturnAt(1, "AAA") = <<2>> /\ ReturnAt(1, "BBB") = <<1>>
    /\ ReturnAt(2, "AAA") # <<>>
    /\ Len(attribution_df) = 2
    /\ attribution_df[1].selection_effect = 4

(***************************************************************************)
(* C17 -- decompose_sectors raises its missing-sector-data error only when *)
(* the lookup itself cannot be retrieved: with the stock_universe table    *)
(* at hand it raises nothing, whichever of the portfolio's tickers the     *)
(* table lacks, and the allocation of those tickers is the allocation of   *)
(* the catch-all row.                                                      *)
(***************************************************************************)
InLookup(t) == t \in DOMAIN stock_universe /\ stock_universe[t] # Absent

C17_FailsOnlyWithoutLookup ==
    LET stocks == decompose_stocks(port, etf_holdings_dict)
        lacking == {i \in DOMAIN stocks : ~InLookup(stocks[i].ticker)}
        fallen == {i \in DOMAIN stocks :
                      InLookup(stocks[i].ticker)
                      /\ map_to_gics_sector(stock_universe[stocks[i].ticker])
                             = map_to_gics_sector("N/A")}
    IN (SectorsCalled /\ stocks # <<>>) =>
          /\ result.raised = ""
          /\ lacking # {} =>
                \E k \in DOMAIN result.rows :
                    /\ result.rows[k].gics_sector = map_to_gics_sector("N/A")
                    /\ result.rows[k].allocation
                         = SumOver(lacking \cup fallen, LAMBDA i : stocks[i].allocation)

(***************************************************************************)
(* C18 -- when the portfolio's and the benchmark's (date, sector) sets     *)
(* differ, brinson_hood_beebower raises nothing and emits a caller-visible *)
(* warning about the mismatch.                                             *)
(***************************************************************************)
Misaligned ==
    \/ KeysOf(series.portfolio_weights) # KeysOf(series.benchmark_weights)
    \/ KeysOf(series.portfolio_returns) # KeysOf(series.benchmark_returns)

C18_MisalignedIsWarned ==
    (Attributed /\ Misaligned) => (result.raised = "" /\ result.warnings # <<>>)

(***************************************************************************)
(* C19 -- a second decompose_stocks on the same PortfolioDecomposer        *)
(* returns the table the first returned: what the first call leaves in     *)
(* self.port (the renamed columns) does not change the result.             *)
(***************************************************************************)
C19_SecondCallReturnsTheSame ==
    [][(StocksReturned /\ result'.op = "decompose_stocks")
          => (result'.raised = result.raised /\ result'.rows = result.rows)]_vars

\* decompose_stocks ran again on a decomposer holding an ETF with holdings and a
\* direct stock.
C19_Witness ==
    /\ pc = "called twice"
    /\ StocksReturned
    /\ Len(port) = 2
    /\ port[1].ticker = "ETF1" /\ port[1].PositionValue = 1000
    /\ etf_holdings_dict["ETF1"] # NoHoldings
    /\ port[2].ticker = "AAA" /\ port[2].PositionValue = 1000
    /\ Len(result.rows) >= 2

\* frame holds, for every period and every sector a stock of the table is
\* assigned to, one row whose sector_weight is the sum of the weights of all the
\* stocks of the table assigned to the sector (pct = 50 * halves).
IsSectorWeights(frame, table) ==
    /\ KeysOf(frame) = {[date |-> d, gics_sector |-> table[k].gics_sector] :
                           d \in PeriodsOf(agg_returns), k \in DOMAIN table}
    /\ Cardinality(KeysOf(frame)) = Len(frame)
    /\ \A i \in DOMAIN frame :
          50 * frame[i].sector_weight
              = SumOver({k \in DOMAIN table : table[k].gics_sector = frame[i].gics_sector},
                        LAMBDA k : table[k].port_weight_pct)

\* On every date of the grid the sector weights of the frame sum to the total
\* weight of the stocks of the table.
SumsToAssignedWeight(frame, table) ==
    \A d \in PeriodsOf(agg_returns) :
        50 * SumOver({i \in DOMAIN frame : frame[i].date = d},
                     LAMBDA i : frame[i].sector_weight)
            = SumOver(DOMAIN table, LAMBDA k : table[k].port_weight_pct)

(***************************************************************************)
(* C21 -- aggregate_portfolio_by_sector yields, for every date of the grid *)
(* and every sector, sector_weight = the sum of weight over all the        *)
(* portfolio's tickers assigned to the sector, the same at every date, so  *)
(* that on every date the sector weights sum to the total weight of the    *)
(* tickers that have a sector assignment.                                  *)
(***************************************************************************)
C21_SectorWeightIsSumOfWeights ==
    SeriesBuilt =>
        /\ IsSectorWeights(series.portfolio_weights, stock_and_sectors.portfolio)
        /\ IsSectorWeights(series.benchmark_weights, stock_and_sectors.benchmark)
        /\ SumsToAssignedWeight(series.portfolio_weights, stock_and_sectors.portfolio)
        /\ SumsToAssignedWeight(series.benchmark_weights, stock_and_sectors.benchmark)

\* How many rows of the table equal the position.
Occurrences(rows, position) == Cardinality({i \in DOMAIN rows : rows[i] = position})

(***************************************************************************)
(* C25 -- _get_portfolio_etf_stocks partitions the positions: a position   *)
(* whose ticker is a key of the ETF-holdings dictionary is in the ETF      *)
(* subset as often as in the portfolio and not in the direct-stock subset, *)
(* any other position is in the direct-stock subset as often as in the     *)
(* portfolio and not in the ETF subset, and the two subsets hold no other  *)
(* row.                                                                    *)
(***************************************************************************)
C25_PositionsArePartitioned ==
    pc # "new" =>
        LET split == _get_portfolio_etf_stocks(port, etf_holdings_dict)
            positions == Range(rename(port))
        IN /\ \A p \in positions :
                 IF HasHoldings(p.ticker)
                 THEN /\ Occurrences(split.port_etf, p) = Occurrences(rename(port), p)
                      /\ Occurrences(split.port_stock, p) = 0
                 ELSE /\ Occurrences(split.port_stock, p) = Occurrences(rename(port), p)
                      /\ Occurrences(split.port_etf, p) = 0
           /\ Range(split.port_etf) \cup Range(split.port_stock) = positions
           /\ Len(split.port_etf) + Len(split.port_stock) = Len(port)

\* A portfolio that lists the same ETF position twice was split and decomposed.
C25_Witness ==
    /\ StocksReturned
    /\ Len(port) = 2
    /\ port[1] = port[2]
    /\ port[1].ticker = "ETF1"
    /\ etf_holdings_dict["ETF1"] # NoHoldings
    /\ Len(_get_portfolio_etf_stocks(port, etf_holdings_dict).port_etf) = 2

\* The names under which ticker t received an allocation.
NamesOf(t) == {e.name : e \in {x \in Emissions : x.ticker = t}}

(***************************************************************************)
(* C26 -- decompose_stocks groups by (ticker, name): a ticker that         *)
(* received allocations under two different names stays in two distinct    *)
(* rows of the returned table, one per name, each carrying the sum of the  *)
(* allocations made under its own name only.                               *)
(***************************************************************************)
C26_TwoNamesStayTwoRows ==
    StocksReturned =>
        \A t \in {e.ticker : e \in Emissions} :
            Cardinality(NamesOf(t)) >= 2 =>
                /\ Cardinality(RowsOf(result.rows, t)) = Cardinality(NamesOf(t))
                /\ \A n \in NamesOf(t) :
                      \E i \in RowsOf(result.rows, t) :
                          /\ result.rows[i].name = n
                          /\ 10 * result.rows[i].allocation
                                = SumTenths({x \in Emissions : x.ticker = t /\ x.name = n})

\* AAA is held directly under one name and through ETF2 under another, and the
\* returned table has two AAA rows.
C26_Witness ==
    /\ StocksReturned
    /\ Cardinality(NamesOf("AAA")) = 2
    /\ \E i \in DOMAIN port : port[i].ticker = "AAA"
    /\ \E i \in DOMAIN port : port[i].ticker = "ETF2" /\ HasHoldings("ETF2")
    /\ Cardinality(RowsOf(result.rows, "AAA")) = 2

\* The sector rows of the returned table that the stock row takes part in: those
\* of the sector its ticker is assigned to by the lookup.
SectorRowsOf(stock) ==
    {k \in DOMAIN result.rows :
        /\ stock.ticker \in DOMAIN stock_universe
        /\ stock_universe[stock.ticker] # Absent
        /\ result.rows[k].gics_sector = map_to_gics_sector(stock_universe[stock.ticker])}

(***************************************************************************)
(* C27 -- in the table decompose_sectors returns every row of the          *)
(* stock-level table contributes its allocation to exactly one sector row  *)
(* (never to none), so the allocations of the sector rows sum to the       *)
(* allocations of the stock rows, whatever the lookup holds, a lookup that *)
(* misses tickers included.                                                *)
(***************************************************************************)
C27_AllocationIsConserved ==
    LET port_to_stocks == decompose_stocks(port, etf_holdings_dict)
    IN (SectorsCalled /\ result.raised = "") =>
          /\ \A i \in DOMAIN port_to_stocks :
                Cardinality(SectorRowsOf(port_to_stocks[i])) = 1
          /\ SumSeq(Column(result.rows, "allocation"))
                = SumSeq(Column(port_to_stocks, "allocation"))

MaxStockList == 1802

MaxMargin == 5

\* The lengths of stock_list: those within MaxMargin of a multiple of
\* limit_sql_variables.
ListLengths ==
    {n \in 0..MaxStockList : \/ n % limit_sql_variables <= MaxMargin
                             \/ n % limit_sql_variables >= limit_sql_variables - MaxMargin}

StockLists == {[i \in 1..n |-> i] : n \in ListLengths}

\* The date arguments callers pass: None or a date.
StartDates == {None, "2020-01-01"}

EndDates == {None, "2020-12-31"}

\* The (one_lot, params after one_lot) of every query of get_stock_info_data.
stock_info_queries(stock_list) ==
    LET batches == lots(stock_list, 0)
    IN [b \in DOMAIN batches |-> [one_lot |-> batches[b], dates |-> <<>>]]

\* ... and of get_stock_prices_data: params = one_lot + the dates given.
stock_prices_queries(stock_list, start_date, end_date) ==
    LET batches == lots(stock_list, 0)
    IN [b \in DOMAIN batches |->
          [one_lot |-> batches[b],
           dates |-> IF start_date # None /\ end_date # None THEN <<start_date, end_date>>
                     ELSE IF start_date # None THEN <<start_date>>
                     ELSE IF end_date # None THEN <<end_date>>
                     ELSE <<>>]]

InitBatches ==
    /\ pc = "market_data"
    /\ stock_list_tickers \in StockLists
    /\ port = <<>>
    /\ etf_holdings_dict = [k \in Range(ETFOrder) |-> NoHoldings]
    /\ stock_universe = [t \in {"AAA", "BBB"} |-> Absent]
    /\ result = NoResult
    /\ series = NoSeries
    /\ attribution_df = <<>>
    /\ price_data = <<>>
    /\ returns_data = <<>>
    /\ agg_returns = <<>>
    /\ stock_and_sectors = NoStocks
    /\ caller_port = <<>>
    /\ IdleFetcher
    /\ IdleDatabase

\* market_data.get_stock_info_data(stock_list).
GetStockInfoData ==
    /\ pc = "market_data"
    /\ result' = [op |-> "get_stock_info_data",
                  queries |-> stock_info_queries(stock_list_tickers)]
    /\ UNCHANGED <<pc, port, etf_holdings_dict, stock_universe, series, attribution_df>>
    /\ UNCHANGED <<price_data, returns_data, agg_returns, stock_and_sectors>>
    /\ UNCHANGED <<stock_list_tickers, attempt, slept, responses, now>>
    /\ UNCHANGED <<environ, DATABASE_URL, engine_cache, engines, update_log, fundamental_overview>>
    /\ UNCHANGED caller_port

\* market_data.get_stock_prices_data(stock_list, start_date, end_date).
GetStockPricesData ==
    /\ pc = "market_data"
    /\ \E start_date \in StartDates, end_date \in EndDates :
          result' = [op |-> "get_stock_prices_data",
                     queries |-> stock_prices_queries(stock_list_tickers, start_date, end_date)]
    /\ UNCHANGED <<pc, port, etf_holdings_dict, stock_universe, series, attribution_df>>
    /\ UNCHANGED <<price_data, returns_data, agg_returns, stock_and_sectors>>
    /\ UNCHANGED <<stock_list_tickers, attempt, slept, responses, now>>
    /\ UNCHANGED <<environ, DATABASE_URL, engine_cache, engines, update_log, fundamental_overview>>
    /\ UNCHANGED caller_port

NextBatches ==
    \/ GetStockInfoData
    \/ GetStockPricesData

SpecBatches == InitBatches /\ [][NextBatches]_vars

\* The tickers the queries of the last call asked for, query after query.
Queried == Concat([b \in DOMAIN result.queries |-> result.queries[b].one_lot])

Batched == result.op \in {"get_stock_info_data", "get_stock_prices_data"}

(***************************************************************************)
(* C29 -- get_stock_info_data and get_stock_prices_data query every ticker *)
(* of stock_list in exactly one batch: for a list of any length, one of    *)
(* more than 900 tickers included, the batches taken together are the      *)
(* list, no ticker skipped and none queried twice.                         *)
(***************************************************************************)
C29_EveryTickerInOneBatch ==
    Batched => Queried = stock_list_tickers

(***************************************************************************)
(* DataFetcher._fetch_alphavantage_data, statement by statement.  Durations *)
(* are in hundredths of a second.                                          *)
(***************************************************************************)
\* self.call_interval = 60 / 75 seconds.
call_interval == (60 * 100) \div 75

\* range(3).
max_attempts == 3

RECURSIVE pow2(_)
pow2(n) == IF n = 0 THEN 1 ELSE 2 * pow2(n - 1)

\* What resp.json() may hold: a dict with any of these keys, or a list.
BodyKeys == {"Error Message", "Note", "Symbol"}

Bodies ==
    {[is_dict |-> TRUE, keys |-> K] : K \in SUBSET BodyKeys}
        \cup {[is_dict |-> FALSE, keys |-> {}]}

\* What requests.get may do: raise a RequestException, or return a response
\* with a status code and a body; the body of a 200 may not be JSON at all.
Outcomes ==
    {[exception |-> "RequestException", status_code |-> 0, json |-> <<>>]}
        \cup {[exception |-> "", status_code |-> 500, json |-> <<>>]}
        \cup {[exception |-> "", status_code |-> 200, json |-> <<b>>] : b \in Bodies}
        \cup {[exception |-> "", status_code |-> 200, json |-> <<>>]}

\* isinstance(data, dict) and ("Error Message" in data or "Note" in data), and
\* which of the two branches is taken.
api_error(data) == data.is_dict /\ "Error Message" \in data.keys

api_note(data) == data.is_dict /\ "Error Message" \notin data.keys /\ "Note" \in data.keys

\* A build whose backoff does not grow with the attempt.
backoff_constant(n) == call_interval

\* self.call_interval * (2**attempt).
backoff(n) == call_interval * pow2(n)

\* The call has been made and is at the head of its loop.
InitFetch ==
    /\ pc = "for attempt"
    /\ attempt = 0
    /\ slept = <<>>
    /\ responses = <<>>
    /\ result = NoResult
    /\ port = <<>>
    /\ etf_holdings_dict = [k \in Range(ETFOrder) |-> NoHoldings]
    /\ stock_universe = [t \in {"AAA", "BBB"} |-> Absent]
    /\ series = NoSeries
    /\ attribution_df = <<>>
    /\ price_data = <<>>
    /\ returns_data = <<>>
    /\ agg_returns = <<>>
    /\ stock_and_sectors = NoStocks
    /\ caller_port = <<>>
    /\ stock_list_tickers = <<>>
    /\ IdleDatabase

\* for attempt in range(3): time.sleep(self.call_interval); after the third
\* pass the loop ends and the function returns None.
SleepCallInterval ==
    /\ pc = "for attempt"
    /\ IF attempt < max_attempts
       THEN /\ slept' = Append(slept, call_interval)
            /\ pc' = "requests.get"
            /\ UNCHANGED result
       ELSE /\ result' = [op |-> "_fetch_alphavantage_data", raised |-> "", value |-> <<>>]
            /\ pc' = "returned"
            /\ UNCHANGED slept
    /\ UNCHANGED <<attempt, responses>>
    /\ UNCHANGED <<port, etf_holdings_dict, stock_universe, series, attribution_df>>
    /\ UNCHANGED <<price_data, returns_data, agg_returns, stock_and_sectors>>
    /\ UNCHANGED <<stock_list_tickers, now, caller_port>>
    /\ UNCHANGED <<environ, DATABASE_URL, engine_cache, engines, update_log, fundamental_overview>>

\* The try block: requests.get, the status check, resp.json() and the API-level
\* checks.  A 200 whose body is not JSON makes resp.json() raise JSONDecodeError,
\* which is a RequestException in some releases of requests (caught, retried)
\* and a plain ValueError in others (propagates).
RequestsGet ==
    /\ pc = "requests.get"
    /\ \E resp \in Outcomes :
          /\ responses' = Append(responses, resp)
          /\ \/ /\ resp.exception # "" \/ resp.status_code # 200
                /\ pc' = "backoff"
                /\ UNCHANGED result
             \/ /\ resp.exception = "" /\ resp.status_code = 200 /\ resp.json = <<>>
                /\ \/ pc' = "backoff" /\ UNCHANGED result
                   \/ /\ pc' = "raised"
                      /\ result' = [op |-> "_fetch_alphavantage_data",
                                    raised |-> "ValueError", value |-> <<>>]
             \/ /\ resp.exception = "" /\ resp.status_code = 200 /\ resp.json # <<>>
                /\ IF api_error(resp.json[1])
                   THEN /\ pc' = "returned"
                        /\ result' = [op |-> "_fetch_alphavantage_data", raised |-> "",
                                      value |-> <<>>]
                   ELSE IF api_note(resp.json[1])
                   THEN pc' = "backoff" /\ UNCHANGED result
                   ELSE /\ pc' = "returned"
                        /\ result' = [op |-> "_fetch_alphavantage_data", raised |-> "",
                                      value |-> resp.json]
    /\ UNCHANGED <<attempt, slept>>
    /\ UNCHANGED <<port, etf_holdings_dict, stock_universe, series, attribution_df>>
    /\ UNCHANGED <<price_data, returns_data, agg_returns, stock_and_sectors>>
    /\ UNCHANGED <<stock_list_tickers, now, caller_port>>
    /\ UNCHANGED <<environ, DATABASE_URL, engine_cache, engines, update_log, fundamental_overview>>

\* time.sleep(self.call_interval * (2**attempt)) and on to the next attempt.
Backoff ==
    /\ pc = "backoff"
    /\ slept' = Append(slept, backoff(attempt))
    /\ attempt' = attempt + 1
    /\ pc' = "for attempt"
    /\ UNCHANGED <<responses, result>>
    /\ UNCHANGED <<port, etf_holdings_dict, stock_universe, series, attribution_df>>
    /\ UNCHANGED <<price_data, returns_data, agg_returns, stock_and_sectors>>
    /\ UNCHANGED <<stock_list_tickers, now, caller_port>>
    /\ UNCHANGED <<environ, DATABASE_URL, engine_cache, engines, update_log, fundamental_overview>>

NextFetch ==
    \/ SleepCallInterval
    \/ RequestsGet
    \/ Backoff

SpecFetch == InitFetch /\ [][NextFetch]_vars

\* The interpreter keeps executing the call: no statement waits for anything
\* but a sleep or the request, whose timeout is 10 seconds.
FairFetch == SpecFetch /\ WF_vars(NextFetch)

(***************************************************************************)
(* What _fetch_alphavantage_data is expected to do, stated over the        *)
(* outcomes of its requests                                                *)
(***************************************************************************)
\* The k-th request failed in a way that is retried: an exception, a status
\* other than 200, a body that is not JSON, or a "Note" without an error.
Retried(k) ==
    \/ responses[k].exception # ""
    \/ responses[k].status_code # 200
    \/ responses[k].json = <<>>
    \/ /\ responses[k].json[1].is_dict
       /\ "Note" \in responses[k].json[1].keys
       /\ "Error Message" \notin responses[k].json[1].keys

\* The k-th request came back with 200 and an "Error Message".
Refused(k) ==
    /\ responses[k].exception = "" /\ responses[k].status_code = 200
    /\ responses[k].json # <<>>
    /\ responses[k].json[1].is_dict
    /\ "Error Message" \in responses[k].json[1].keys

Fetched == result.op = "_fetch_alphavantage_data"

FetchIsBounded ==
    /\ Len(responses) <= 3
    /\ \A k \in DOMAIN responses :
          /\ Len(slept) >= 2 * k - 1
          /\ slept[2 * k - 1] = call_interval
          /\ Len(slept) >= 2 * k =>
                (Retried(k) /\ slept[2 * k] = call_interval * pow2(k - 1))
          /\ k < Len(responses) => (Retried(k) /\ Len(slept) >= 2 * k)

FetchReturns ==
    Fetched =>
        LET n == Len(responses)
        IN /\ result.raised # "RequestException"
           /\ result.raised = "" =>
                 IF n = 0 THEN FALSE
                 ELSE IF Refused(n) THEN result.value = <<>> /\ Len(slept) = 2 * n - 1
                 ELSE IF Retried(n) THEN n = 3 /\ result.value = <<>> /\ Len(slept) = 2 * n
                 ELSE result.value = responses[n].json /\ Len(slept) = 2 * n - 1

(***************************************************************************)
(* C30 -- _fetch_alphavantage_data always terminates, after at most 3 HTTP *)
(* requests, each preceded by a sleep of call_interval, whatever the       *)
(* server does: it returns the first 200 body that carries neither "Error  *)
(* Message" nor "Note", returns None at once on an "Error Message" body,   *)
(* retries after a sleep of call_interval * 2^attempt on a status other    *)
(* than 200, a "Note" body or a request exception, returns None after      *)
(* three failed attempts, and never propagates a request exception.        *)
(***************************************************************************)
C30_FetchTerminatesWithinThreeRequests ==
    /\ [](FetchIsBounded /\ FetchReturns)
    /\ <>(pc \in {"returned", "raised"})

\* Three attempts failed (an exception, a 500, a "Note") and None was returned
\* after the backoffs of 1, 2 and 4 call_intervals.
C30_Witness ==
    /\ pc = "returned"
    /\ Fetched /\ result.value = <<>>
    /\ Len(responses) = 3
    /\ responses[1].exception = "RequestException"
    /\ responses[2].status_code = 500
    /\ responses[3].status_code = 200 /\ responses[3].json # <<>>
    /\ slept = <<call_interval, call_interval, call_interval, 2 * call_interval,
                 call_interval, 4 * call_interval>>

(***************************************************************************)
(* db/core.py (the engine and update_log) and the DataFetcher methods that *)
(* write through the engine.  The clock counts half seconds.               *)
(***************************************************************************)
MaxEngines == 2

MaxClock == 3

\* os.getenv("DATABASE_URL", default).
getenv(env, default) == IF env = <<>> THEN default ELSE env[1]

\* Engine.dialect.name: the part of the URL's drivername before the "+".
dialect_name(drivername) ==
    CASE drivername = "postgresql+psycopg" -> "postgresql"
      [] drivername = "sqlite" -> "sqlite"
      [] OTHER -> drivername

\* create_engine(url, future=True); id tells one engine object from another.
create_engine(url, id) == [url |-> url, dialect |-> dialect_name(url.drivername), id |-> id]

\* @lru_cache(maxsize=1) get_engine(): the cached engine, or a new one for the
\* module constant DATABASE_URL, which is then cached.
get_engine(cache, made, database_url) ==
    IF cache # <<>>
    THEN [engine |-> cache[1], cache |-> cache, engines |-> made]
    ELSE [engine |-> create_engine(database_url, made + 1),
          cache |-> <<create_engine(database_url, made + 1)>>, engines |-> made + 1]

\* CREATE TABLE IF NOT EXISTS.
create_table_if_not_exists(table) == IF table.exists THEN table ELSE [exists |-> TRUE, rows |-> {}]

\* datetime.now().isoformat(timespec="seconds"): the fraction of the second is cut.
isoformat_seconds(clock) == clock \div 2

\* conn.exec_driver_sql("INSERT INTO update_log (run_time, ticker, table_name)
\* VALUES (?, ?, ?)", (...)) inside engine.begin(): the statement goes to the
\* driver as it is.  psycopg takes %s placeholders, not ?, and refuses the
\* parameters; sqlite3 takes ?.  (run_time, ticker, table_name) is the primary key.
insert_update_log(table, dialect, row) ==
    IF dialect = "postgresql" THEN [raised |-> "ProgrammingError", table |-> table]
    ELSE IF ~table.exists THEN [raised |-> "OperationalError", table |-> table]
    ELSE IF row \in table.rows THEN [raised |-> "IntegrityError", table |-> table]
    ELSE [raised |-> "", table |-> [exists |-> TRUE, rows |-> table.rows \cup {row}]]

\* for t in tickers: self._log_update(t, table), the i-th call at clock times[i];
\* every call commits on its own and the first exception ends the loop.
RECURSIVE log_updates(_, _, _, _, _, _)
log_updates(table, dialect, tickers, table_name, times, i) ==
    IF i > Len(tickers) THEN [raised |-> "", table |-> table]
    ELSE LET logged == insert_update_log(table, dialect,
                           [run_time |-> isoformat_seconds(times[i]), ticker |-> tickers[i],
                            table_name |-> table_name])
         IN IF logged.raised # "" THEN logged
            ELSE log_updates(logged.table, dialect, tickers, table_name, times, i + 1)

\* The OVERVIEW document of the API, and pd.Series(data).to_json().
Overview == [key |-> "val"]

to_json(data) == IF data = Overview THEN "{\"key\":\"val\"}" ELSE "{}"

\* records: one {"ticker", "data"} per ticker whose request returned data.
overview_records(tickers, data) ==
    LET returned == SelectSeq([i \in DOMAIN tickers |-> [ticker |-> tickers[i], data |-> data[i]]],
                              LAMBDA r : r.data # <<>>)
    IN [i \in DOMAIN returned |->
          [ticker |-> returned[i].ticker, data |-> to_json(returned[i].data[1])]]

\* CREATE TABLE IF NOT EXISTS fundamental_overview (ticker TEXT PRIMARY KEY, data
\* TEXT) and df.to_sql(table, conn, if_exists="append", method="multi") in one
\* transaction: a ticker that is already in the table, or twice in df, violates
\* the primary key and the transaction is rolled back.
append_overview(table, records) ==
    LET stored == {r.ticker : r \in table.rows}
        clash == \/ \E i \in DOMAIN records : records[i].ticker \in stored
                 \/ \E i, j \in DOMAIN records : i # j /\ records[i].ticker = records[j].ticker
    IN IF clash THEN [raised |-> "IntegrityError", table |-> table]
       ELSE [raised |-> "", table |-> [exists |-> TRUE, rows |-> table.rows \cup Range(records)]]

\* The ticker lists store_company_overview is called with, and what the API
\* returns for each ticker of a list (<<>> for None or an empty document).
TickerLists == {<<"AAPL">>, <<"AAPL", "MSFT">>, <<"AAPL", "AAPL">>}

ApiData(tickers) == [DOMAIN tickers -> {<<>>, <<Overview>>}]

\* The clock at each of the n calls a handler makes, from the present on.
Times(n) == {t \in [1..n -> now..MaxClock] : \A i, j \in 1..n : i <= j => t[i] <= t[j]}

\* db/core.py has been imported: DATABASE_URL was read from the environment as
\* it was then.
InitDatabase ==
    /\ pc = "imported"
    /\ environ \in {<<>>} \cup {<<u>> : u \in Urls}
    /\ DATABASE_URL = getenv(environ, sqlite_url)
    /\ engine_cache = <<>>
    /\ engines = 0
    /\ update_log = [u \in Urls |-> NoTable]
    /\ fundamental_overview = [u \in Urls |-> NoTable]
    /\ now = 0
    /\ result = NoResult
    /\ port = <<>>
    /\ etf_holdings_dict = [k \in Range(ETFOrder) |-> NoHoldings]
    /\ stock_universe = [t \in {"AAA", "BBB"} |-> Absent]
    /\ series = NoSeries
    /\ attribution_df = <<>>
    /\ price_data = <<>>
    /\ returns_data = <<>>
    /\ agg_returns = <<>>
    /\ stock_and_sectors = NoStocks
    /\ caller_port = <<>>
    /\ stock_list_tickers = <<>>
    /\ IdleFetcher

\* monkeypatch.setenv("DATABASE_URL", url).
Setenv ==
    /\ \E url \in Urls : environ' = <<url>>
    /\ result' = [op |-> "setenv", raised |-> ""]
    /\ UNCHANGED <<DATABASE_URL, engine_cache, engines, update_log, fundamental_overview, now>>
    /\ UNCHANGED <<pc, port, etf_holdings_dict, stock_universe, series, attribution_df>>
    /\ UNCHANGED <<price_data, returns_data, agg_returns, stock_and_sectors>>
    /\ UNCHANGED <<caller_port, stock_list_tickers, attempt, slept, responses>>

\* get_engine.cache_clear().
CacheClear ==
    /\ engines < MaxEngines
    /\ engine_cache' = <<>>
    /\ result' = [op |-> "cache_clear", raised |-> ""]
    /\ UNCHANGED <<environ, DATABASE_URL, engines, update_log, fundamental_overview, now>>
    /\ UNCHANGED <<pc, port, etf_holdings_dict, stock_universe, series, attribution_df>>
    /\ UNCHANGED <<price_data, returns_data, agg_returns, stock_and_sectors>>
    /\ UNCHANGED <<caller_port, stock_list_tickers, attempt, slept, responses>>

\* engine = get_engine().
GetEngine ==
    /\ LET got == get_engine(engine_cache, engines, DATABASE_URL)
       IN /\ engine_cache' = got.cache
          /\ engines' = got.engines
          /\ result' = [op |-> "get_engine", raised |-> "", engine |-> got.engine]
    /\ UNCHANGED <<environ, DATABASE_URL, update_log, fundamental_overview, now>>
    /\ UNCHANGED <<pc, port, etf_holdings_dict, stock_universe, series, attribution_df>>
    /\ UNCHANGED <<price_data, returns_data, agg_returns, stock_and_sectors>>
    /\ UNCHANGED <<caller_port, stock_list_tickers, attempt, slept, responses>>

\* ensure_tables().
EnsureTables ==
    /\ LET got == get_engine(engine_cache, engines, DATABASE_URL)
       IN /\ engine_cache' = got.cache
          /\ engines' = got.engines
          /\ update_log' = [update_log EXCEPT ![got.engine.url] = create_table_if_not_exists(@)]
    /\ result' = [op |-> "ensure_tables", raised |-> ""]
    /\ UNCHANGED <<environ, DATABASE_URL, fundamental_overview, now>>
    /\ UNCHANGED <<pc, port, etf_holdings_dict, stock_universe, series, attribution_df>>
    /\ UNCHANGED <<price_data, returns_data, agg_returns, stock_and_sectors>>
    /\ UNCHANGED <<caller_port, stock_list_tickers, attempt, slept, responses>>

\* DROP TABLE IF EXISTS update_log, through the engine (test_update_log.py).
DropUpdateLog ==
    /\ LET got == get_engine(engine_cache, engines, DATABASE_URL)
       IN /\ engine_cache' = got.cache
          /\ engines' = got.engines
          /\ update_log' = [update_log EXCEPT ![got.engine.url] = NoTable]
    /\ result' = [op |-> "drop_update_log", raised |-> ""]
    /\ UNCHANGED <<environ, DATABASE_URL, fundamental_overview, now>>
    /\ UNCHANGED <<pc, port, etf_holdings_dict, stock_universe, series, attribution_df>>
    /\ UNCHANGED <<price_data, returns_data, agg_returns, stock_and_sectors>>
    /\ UNCHANGED <<caller_port, stock_list_tickers, attempt, slept, responses>>

\* DataFetcher()._log_update("TEST", "dummy").
LogUpdate ==
    /\ LET got == get_engine(engine_cache, engines, DATABASE_URL)
           logged == insert_update_log(update_log[got.engine.url], got.engine.dialect,
                         [run_time |-> isoformat_seconds(now), ticker |-> "TEST",
                          table_name |-> "dummy"])
       IN /\ engine_cache' = got.cache
          /\ engines' = got.engines
          /\ update_log' = [update_log EXCEPT ![got.engine.url] = logged.table]
          /\ result' = [op |-> "_log_update", raised |-> logged.raised]
    /\ UNCHANGED <<environ, DATABASE_URL, fundamental_overview, now>>
    /\ UNCHANGED <<pc, port, etf_holdings_dict, stock_universe, series, attribution_df>>
    /\ UNCHANGED <<price_data, returns_data, agg_returns, stock_and_sectors>>
    /\ UNCHANGED <<caller_port, stock_list_tickers, attempt, slept, responses>>

\* DataFetcher().store_company_overview(tickers), the API returning data[i] for
\* tickers[i]; time may pass between the _log_update calls.
StoreCompanyOverview ==
    /\ \E tickers \in TickerLists :
       \E data \in ApiData(tickers), times \in Times(Len(tickers)) :
          LET got == get_engine(engine_cache, engines, DATABASE_URL)
              url == got.engine.url
              records == overview_records(tickers, data)
              appended == append_overview(fundamental_overview[url], records)
              logged == log_updates(update_log[url], got.engine.dialect, tickers,
                                    "fundamental_overview", times, 1)
          IN /\ engine_cache' = got.cache
             /\ engines' = got.engines
             /\ IF records = <<>>
                THEN /\ result' = [op |-> "store_company_overview", raised |-> "",
                                   tickers |-> tickers, data |-> data]
                     /\ UNCHANGED <<fundamental_overview, update_log, now>>
                ELSE IF appended.raised # ""
                THEN /\ result' = [op |-> "store_company_overview",
                                   raised |-> appended.raised,
                                   tickers |-> tickers, data |-> data]
                     /\ UNCHANGED <<fundamental_overview, update_log, now>>
                ELSE /\ fundamental_overview' =
                            [fundamental_overview EXCEPT ![url] = appended.table]
                     /\ update_log' = [update_log EXCEPT ![url] = logged.table]
                     /\ now' = times[Len(tickers)]
                     /\ result' = [op |-> "store_company_overview", raised |-> logged.raised,
                                   tickers |-> tickers, data |-> data]
    /\ UNCHANGED <<environ, DATABASE_URL>>
    /\ UNCHANGED <<pc, port, etf_holdings_dict, stock_universe, series, attribution_df>>
    /\ UNCHANGED <<price_data, returns_data, agg_returns, stock_and_sectors>>
    /\ UNCHANGED <<caller_port, stock_list_tickers, attempt, slept, responses>>

\* Half a second passes.
Tick ==
    /\ now < MaxClock
    /\ now' = now + 1
    /\ UNCHANGED <<environ, DATABASE_URL, engine_cache, engines, update_log, fundamental_overview>>
    /\ UNCHANGED <<pc, port, etf_holdings_dict, stock_universe, result, series, attribution_df>>
    /\ UNCHANGED <<price_data, returns_data, agg_returns, stock_and_sectors>>
    /\ UNCHANGED <<caller_port, stock_list_tickers, attempt, slept, responses>>

NextDatabase ==
    \/ Setenv
    \/ CacheClear
    \/ GetEngine
    \/ EnsureTables
    \/ DropUpdateLog
    \/ LogUpdate
    \/ StoreCompanyOverview
    \/ Tick

SpecDatabase == InitDatabase /\ [][NextDatabase]_vars

(***************************************************************************)
(* C22 -- once the DATABASE_URL environment variable is set and the cache  *)
(* of get_engine is clear, the next get_engine() returns an engine for     *)
(* that URL (of dialect "postgresql" for a postgresql URL), and every      *)
(* later call returns that same engine object until the cache is cleared   *)
(* again.                                                                  *)
(***************************************************************************)
C22_EngineFollowsTheEnvironment ==
    [][GetEngine =>
          /\ (environ # <<>> /\ engine_cache = <<>>) =>
                /\ result'.engine.url = environ[1]
                /\ environ[1] = postgresql_url => result'.engine.dialect = "postgresql"
          /\ engine_cache # <<>> => result'.engine = engine_cache[1]]_vars

(***************************************************************************)
(* C23 -- after ensure_tables() the update_log table exists, whatever was  *)
(* there before (a dropped table included), and every _log_update call     *)
(* made while it exists completes and adds its row (run_time, ticker,      *)
(* table) to update_log, which has at least one row afterwards.            *)
(***************************************************************************)
C23_LogUpdateAddsARow ==
    [][/\ EnsureTables => update_log'[DATABASE_URL].exists
       /\ (LogUpdate /\ update_log[DATABASE_URL].exists) =>
             /\ result'.raised = ""
             /\ [run_time |-> isoformat_seconds(now), ticker |-> "TEST",
                 table_name |-> "dummy"] \in update_log'[DATABASE_URL].rows
             /\ Cardinality(update_log'[DATABASE_URL].rows)
                   = Cardinality(update_log[DATABASE_URL].rows) + 1]_vars

(***************************************************************************)
(* C24 -- after a store_company_overview(tickers) in which the API         *)
(* returned data for at least one ticker (update_log being there),         *)
(* fundamental_overview holds a row for each ticker that returned data and *)
(* update_log a row for each ticker of the list, also when a ticker had    *)
(* been stored by an earlier call.                                         *)
(***************************************************************************)
C24_OverviewStoredAndLogged ==
    [][(/\ StoreCompanyOverview
        /\ update_log[DATABASE_URL].exists
        /\ \E i \in DOMAIN result'.tickers : result'.data[i] # <<>>) =>
          /\ result'.raised = ""
          /\ \A i \in DOMAIN result'.tickers :
                /\ result'.data[i] # <<>> =>
                      \E r \in fundamental_overview'[DATABASE_URL].rows :
                          r.ticker = result'.tickers[i]
                /\ \E r \in update_log'[DATABASE_URL].rows :
                      /\ r.ticker = result'.tickers[i]
                      /\ r.table_name = "fundamental_overview"]_vars

====
